---------------------------- MODULE Spec2Model ----------------------------
(***************************************************************************)
(* Pinboard Bridge (rossshannon/pinboard-bridge): a model of the current   *)
(* gateway, src/unnamed/part_001.                                          *)
(*                                                                         *)
(* Text is modelled as a sequence of one-character strings, so that the    *)
(* header regular expressions, the base64 decoding, the URL parsing and    *)
(* the host classification are computed character by character.            *)
(***************************************************************************)
EXTENDS Integers, Sequences, FiniteSets, TLC

VARIABLES
    pc,                 \* position of the route handler
    req,                \* the inbound request being handled
    normalizedUrl,      \* new URL(target) of the enrichment route
    authContext,        \* what applyAuthContext returned (or threw)
    outbound,           \* the outbound requests issued so far, in order
    suggestionsPromise, \* state of axios.get(pinboardUrl, ...)
    previewPromise,     \* state of fetchPreview(normalizedUrl)
    previewResponse,    \* how the preview's axios.get settled, <<>> before
    proxyPromise,       \* state of the proxy route's axios.get(url, ...)
    res,                \* the response sent, <<>> while none was sent
    logged,             \* the console.info lines written, in order
    previewHits,        \* the preview limiter's store: requests counted per key
    reached,            \* per token, the requests the limiter passed on in this window
    probe,              \* a function under examination: its input and its result
    inflight,           \* the requests being handled at the same time, by slot
    sharedDefaults      \* the module-level apiRequestDefaults and previewRequestConfig

vars == <<pc, req, normalizedUrl, authContext, outbound,
          suggestionsPromise, previewPromise, previewResponse, proxyPromise, res,
          logged, previewHits, reached, probe, inflight, sharedDefaults>>

(***************************************************************************)
(* Bounds of the model.                                                    *)
(***************************************************************************)
\* longest credential payload (the text "user:pass" or "user:token")
MaxPayloadLen == 3

\* the requests handled at the same time
MaxInflight == 2

(***************************************************************************)
(* Characters and strings.                                                 *)
(***************************************************************************)
\* printable ASCII, code 32 first (code 96 is spelled out)
Ascii ==
    <<" ", "!", "\"", "#", "$", "%", "&", "'", "(", ")", "*", "+", ",", "-",
      ".", "/", "0", "1", "2", "3", "4", "5", "6", "7", "8", "9", ":", ";",
      "<", "=", ">", "?", "@", "A", "B", "C", "D", "E", "F", "G", "H", "I",
      "J", "K", "L", "M", "N", "O", "P", "Q", "R", "S", "T", "U", "V", "W",
      "X", "Y", "Z", "[", "\\", "]", "^", "_", "(backtick)", "a", "b", "c", "d", "e",
      "f", "g", "h", "i", "j", "k", "l", "m", "n", "o", "p", "q", "r", "s",
      "t", "u", "v", "w", "x", "y", "z", "{", "|", "}", "~">>

Range(s) == { s[i] : i \in DOMAIN s }

\* the byte a printable character is encoded as
OrdTable == [ c \in Range(Ascii) |-> 31 + CHOOSE i \in DOMAIN Ascii : Ascii[i] = c ]

Ord(c) == OrdTable[c]

\* the character a byte decodes to; a byte outside printable ASCII becomes
\* the replacement character of Buffer#toString()
Chr(b) == IF b >= 32 /\ b <= 126 THEN Ascii[b - 31] ELSE "\\uFFFD"

IsUpper(c) == c \in Range(Ascii) /\ Ord(c) >= 65 /\ Ord(c) <= 90

ToLowerChar(c) == IF IsUpper(c) THEN Chr(Ord(c) + 32) ELSE c

\* String.prototype.toLowerCase
ToLowerCase(s) == [ i \in DOMAIN s |-> ToLowerChar(s[i]) ]

\* the characters the regular expression class \s and trim() treat as space
IsSpace(c) == c \in {" ", "\t"}

StartsWith(s, p) == Len(s) >= Len(p) /\ SubSeq(s, 1, Len(p)) = p

EndsWith(s, p) == Len(s) >= Len(p) /\ SubSeq(s, Len(s) - Len(p) + 1, Len(s)) = p

\* String.prototype.includes
Includes(s, p) == \E i \in 1..(Len(s) - Len(p) + 1) : SubSeq(s, i, i + Len(p) - 1) = p

\* String.prototype.indexOf for one character, 0-based, -1 when absent
IndexOf(s, c) ==
    IF \E i \in DOMAIN s : s[i] = c
    THEN (CHOOSE i \in DOMAIN s : s[i] = c /\ \A j \in 1..(i - 1) : s[j] # c) - 1
    ELSE -1

\* String.prototype.slice(from, to) with 0-based, in-range arguments
Slice(s, from, to) == SubSeq(s, from + 1, to)

RECURSIVE TrimStart(_)
TrimStart(s) == IF s # <<>> /\ IsSpace(Head(s)) THEN TrimStart(Tail(s)) ELSE s

RECURSIVE TrimEnd(_)
TrimEnd(s) ==
    IF s # <<>> /\ IsSpace(s[Len(s)]) THEN TrimEnd(SubSeq(s, 1, Len(s) - 1)) ELSE s

\* String.prototype.trim
Trim(s) == TrimEnd(TrimStart(s))

\* String.prototype.split(sep)[0]
SplitFirst(s, c) == IF IndexOf(s, c) = -1 THEN s ELSE Slice(s, 0, IndexOf(s, c))

\* F(x) with x evaluated once
With(x, F(_)) == CHOOSE r \in { F(v) : v \in {x} } : TRUE

\* every sequence over alphabet of length at most n
SeqsUpTo(alphabet, n) == UNION { [1..k -> alphabet] : k \in 0..n }

(***************************************************************************)
(* Base64: Buffer.from(encoded, 'base64').toString() and, for the client   *)
(* side that builds a Basic header, its inverse.                           *)
(***************************************************************************)
B64Alphabet ==
    <<"A", "B", "C", "D", "E", "F", "G", "H", "I", "J", "K", "L", "M", "N",
      "O", "P", "Q", "R", "S", "T", "U", "V", "W", "X", "Y", "Z", "a", "b",
      "c", "d", "e", "f", "g", "h", "i", "j", "k", "l", "m", "n", "o", "p",
      "q", "r", "s", "t", "u", "v", "w", "x", "y", "z", "0", "1", "2", "3",
      "4", "5", "6", "7", "8", "9", "+", "/">>

B64Table == [ c \in Range(B64Alphabet) |->
                (CHOOSE i \in DOMAIN B64Alphabet : B64Alphabet[i] = c) - 1 ]

\* the client side: three bytes become four characters, "=" pads the tail
RECURSIVE B64EncodeBytes(_)
B64EncodeBytes(b) ==
    IF Len(b) = 0 THEN <<>>
    ELSE IF Len(b) = 1 THEN
        <<B64Alphabet[(b[1] \div 4) + 1], B64Alphabet[((b[1] % 4) * 16) + 1], "=", "=">>
    ELSE IF Len(b) = 2 THEN
        <<B64Alphabet[(b[1] \div 4) + 1],
          B64Alphabet[((b[1] % 4) * 16 + b[2] \div 16) + 1],
          B64Alphabet[((b[2] % 16) * 4) + 1], "=">>
    ELSE
        <<B64Alphabet[(b[1] \div 4) + 1],
          B64Alphabet[((b[1] % 4) * 16 + b[2] \div 16) + 1],
          B64Alphabet[((b[2] % 16) * 4 + b[3] \div 64) + 1],
          B64Alphabet[(b[3] % 64) + 1]>>
        \o B64EncodeBytes(SubSeq(b, 4, Len(b)))

Base64Encode(s) == B64EncodeBytes([ i \in DOMAIN s |-> Ord(s[i]) ])

\* the sextets of the characters the decoder reads: it stops at the first
\* "=" and skips every character outside the alphabet
RECURSIVE B64Sextets(_)
B64Sextets(s) ==
    IF s = <<>> \/ Head(s) = "=" THEN <<>>
    ELSE IF Head(s) \in Range(B64Alphabet)
         THEN <<B64Table[Head(s)]>> \o B64Sextets(Tail(s))
         ELSE B64Sextets(Tail(s))

RECURSIVE B64DecodeSextets(_)
B64DecodeSextets(x) ==
    IF Len(x) < 2 THEN <<>>
    ELSE IF Len(x) = 2 THEN <<x[1] * 4 + x[2] \div 16>>
    ELSE IF Len(x) = 3 THEN
        <<x[1] * 4 + x[2] \div 16, (x[2] % 16) * 16 + x[3] \div 4>>
    ELSE
        <<x[1] * 4 + x[2] \div 16, (x[2] % 16) * 16 + x[3] \div 4,
          (x[3] % 4) * 64 + x[4]>>
        \o B64DecodeSextets(SubSeq(x, 5, Len(x)))

\* Buffer.from(encoded, 'base64').toString()
Base64Decode(encoded) ==
    LET bytes == B64DecodeSextets(B64Sextets(encoded))
    IN  [ i \in DOMAIN bytes |-> Chr(bytes[i]) ]

(***************************************************************************)
(* URLSearchParams: an ordered list of <<name, value>> pairs.  The query   *)
(* string an outbound URL carries is kept as this list.                    *)
(***************************************************************************)
ParamsHas(params, key) == \E i \in DOMAIN params : params[i][1] = key

\* URLSearchParams#delete: every pair of that name goes
ParamsDelete(params, key) == SelectSeq(params, LAMBDA e : e[1] # key)

\* URLSearchParams#getAll
ParamsGetAll(params, key) ==
    LET hits == SelectSeq(params, LAMBDA e : e[1] = key)
    IN  [ i \in DOMAIN hits |-> hits[i][2] ]

\* URLSearchParams#set: the first pair of that name takes the value and the
\* others go; without such a pair one is appended
ParamsSet(params, key, value) ==
    IF ParamsHas(params, key)
    THEN LET first == CHOOSE i \in DOMAIN params :
                          params[i][1] = key /\ \A j \in 1..(i - 1) : params[j][1] # key
         IN  SubSeq(params, 1, first - 1) \o << <<key, value>> >>
             \o ParamsDelete(SubSeq(params, first + 1, Len(params)), key)
    ELSE Append(params, <<key, value>>)

\* req.query is a list of [key, values]: one value for a parameter given
\* once, several (an array) for a parameter given several times
RECURSIVE buildSearchParams(_)
buildSearchParams(query) ==
    IF query = <<>> THEN <<>>
    ELSE [ i \in DOMAIN Head(query).values |-> <<Head(query).key, Head(query).values[i]>> ]
         \o buildSearchParams(Tail(query))

(***************************************************************************)
(* Credential resolution.                                                  *)
(***************************************************************************)
ApiTimeoutMs == 30000

apiRequestDefaults == [ timeout |-> ApiTimeoutMs, auth |-> <<>> ]

Basic == <<"B", "a", "s", "i", "c">>

Bearer == <<"B", "e", "a", "r", "e", "r">>

\* authHeader.match(/^<scheme>\s+(.+)$/i): <<>> without a match, else
\* <<group 1>>.  \s+ is greedy and gives back one character only when
\* nothing else is left for (.+)
MatchScheme(authHeader, scheme) ==
    LET n     == Len(scheme)
        rest  == SubSeq(authHeader, n + 1, Len(authHeader))
        group == TrimStart(rest)
    IN  IF ~(Len(authHeader) >= n
             /\ ToLowerCase(SubSeq(authHeader, 1, n)) = ToLowerCase(scheme))
        THEN <<>>
        ELSE IF rest = <<>> \/ ~IsSpace(rest[1]) THEN <<>>
        ELSE IF group # <<>> THEN <<group>>
        ELSE IF Len(rest) >= 2 THEN << <<rest[Len(rest)]>> >>
        ELSE <<>>

\* the superseded split: decoded.split(/:/) keeps only the text between the
\* first and the second ":" as the password
decodeBasicCredentialsSplit(encoded) ==
    LET decoded == Base64Decode(encoded)
        i       == IndexOf(decoded, ":")
        after   == Slice(decoded, i + 1, Len(decoded))
    IN  IF i = -1
        THEN [ username |-> decoded, password |-> <<>> ]
        ELSE [ username |-> Slice(decoded, 0, i), password |-> SplitFirst(after, ":") ]

decodeBasicCredentials(encoded) ==
    LET decoded        == Base64Decode(encoded)
        separatorIndex == IndexOf(decoded, ":")
    IN  IF separatorIndex = -1
        THEN [ username |-> <<>>, password |-> <<>> ]
        ELSE [ username |-> Slice(decoded, 0, separatorIndex),
               password |-> Slice(decoded, separatorIndex + 1, Len(decoded)) ]

\* what applyAuthContext leaves behind when it throws
AuthThrows(message, params) ==
    [ threw |-> TRUE, error |-> message, requestConfig |-> apiRequestDefaults,
      identity |-> <<>>, queryParams |-> params ]

\* a return that loses the auth_token parameter of the outbound query
AuthReturnsTokenDropped(config, identity, params) ==
    [ threw |-> FALSE, error |-> "", requestConfig |-> config, identity |-> identity,
      queryParams |-> ParamsDelete(params, "auth_token") ]

AuthReturns(config, identity, params) ==
    [ threw |-> FALSE, error |-> "", requestConfig |-> config,
      identity |-> identity, queryParams |-> params ]

\* a Bearer token forwarded as the header carries it, surrounding space kept
BearerTokenUntrimmed(group) == group

\* bearerMatch[1].trim()
BearerToken(group) == Trim(group)

\* an identity that is the whole token
BearerIdentityWholeToken(authToken) == authToken

\* authToken.split(':')[0] || 'token'
BearerIdentity(authToken) ==
    IF SplitFirst(authToken, ":") # <<>> THEN SplitFirst(authToken, ":")
    ELSE <<"t", "o", "k", "e", "n">>

\* applyAuthContext after its first statement: params is queryParams
\* without auth_token
ResolveCredentials(authHeader, params) ==
    LET bearerMatch == MatchScheme(authHeader, Bearer)
        basicMatch  == MatchScheme(authHeader, Basic)
    IN  IF basicMatch # <<>> THEN
            With(decodeBasicCredentials(basicMatch[1]), LAMBDA cred :
                IF cred.username = <<>> \/ cred.password = <<>>
                THEN AuthThrows("Invalid Basic authorization header", params)
                ELSE AuthReturns([ apiRequestDefaults EXCEPT !.auth = <<cred>> ],
                                 cred.username, params))
        ELSE IF bearerMatch # <<>> THEN
            With(BearerToken(bearerMatch[1]), LAMBDA authToken :
                IF ~Includes(authToken, <<":">>)
                THEN AuthThrows("Invalid Bearer authorization header", params)
                ELSE AuthReturns(apiRequestDefaults, BearerIdentity(authToken),
                                 ParamsSet(params, "auth_token", authToken)))
        ELSE AuthThrows("Authorization header required", params)

\* the resolver without its sanitation step: queryParams is left as given
applyAuthContextKeepingLegacy(authHeader, queryParams) ==
    ResolveCredentials(authHeader, queryParams)

\* applyAuthContext(req, queryParams), with queryParams as it is afterwards
applyAuthContext(authHeader, queryParams) ==
    ResolveCredentials(authHeader, ParamsDelete(queryParams, "auth_token"))

(***************************************************************************)
(* Host classification: net.isIP and isPrivateHostname.                    *)
(***************************************************************************)
IsDigit(c) == c \in {"0", "1", "2", "3", "4", "5", "6", "7", "8", "9"}

IsHexDigit(c) == IsDigit(c) \/ c \in {"a", "b", "c", "d", "e", "f", "A", "B", "C", "D", "E", "F"}

IsAlpha(c) == c \in Range(Ascii) /\ Ord(ToLowerChar(c)) >= 97 /\ Ord(ToLowerChar(c)) <= 122

\* String.prototype.split(c) for a one-character separator
RECURSIVE Split(_, _)
Split(s, c) ==
    IF IndexOf(s, c) = -1 THEN <<s>>
    ELSE <<Slice(s, 0, IndexOf(s, c))>> \o Split(Slice(s, IndexOf(s, c) + 1, Len(s)), c)

\* Number(text) for a text of decimal digits
RECURSIVE ParseDecimal(_)
ParseDecimal(s) ==
    IF s = <<>> THEN 0
    ELSE 10 * ParseDecimal(SubSeq(s, 1, Len(s) - 1)) + (Ord(s[Len(s)]) - 48)

IsDecimal(s) == s # <<>> /\ \A i \in DOMAIN s : IsDigit(s[i])

\* net.isIPv4: four decimal numbers 0..255 without a leading zero
IsIPv4(s) ==
    LET parts == Split(s, ".")
    IN  /\ Len(parts) = 4
        /\ \A i \in DOMAIN parts :
              /\ IsDecimal(parts[i])
              /\ Len(parts[i]) <= 3
              /\ (Len(parts[i]) > 1 => parts[i][1] # "0")
              /\ ParseDecimal(parts[i]) <= 255

\* net.isIPv6, for addresses written in hexadecimal groups (no embedded
\* IPv4 tail, no zone): at most one "::", groups of 1..4 hex digits, eight
\* groups without "::" and fewer with it
IsIPv6(s) ==
    LET parts  == Split(s, ":")
        groups == SelectSeq(parts, LAMBDA g : g # <<>>)
        gaps   == { i \in 1..(Len(s) - 1) : s[i] = ":" /\ s[i + 1] = ":" }
    IN  /\ s # <<>>
        /\ \A i \in DOMAIN s : IsHexDigit(s[i]) \/ s[i] = ":"
        /\ \A i \in DOMAIN groups : Len(groups[i]) <= 4
        /\ Cardinality(gaps) <= 1
        /\ (s[1] = ":" => 1 \in gaps)
        /\ (s[Len(s)] = ":" => (Len(s) - 1) \in gaps)
        /\ IF gaps = {} THEN Len(groups) = 8 ELSE Len(groups) <= 7

\* net.isIP
IsIP(s) == IF IsIPv4(s) THEN 4 ELSE IF IsIPv6(s) THEN 6 ELSE 0

localhost == <<"l", "o", "c", "a", "l", "h", "o", "s", "t">>

isPrivateHostname(hostname) ==
    LET lower     == ToLowerCase(hostname)
        ipVersion == IsIP(hostname)
        parts     == Split(hostname, ".")
        octets    == [ i \in DOMAIN parts |-> ParseDecimal(parts[i]) ]
    IN  IF hostname = <<>> THEN TRUE
        ELSE IF lower = localhost \/ EndsWith(lower, <<".">> \o localhost) THEN TRUE
        ELSE IF ipVersion = 4
                /\ \/ octets[1] = 10
                   \/ octets[1] = 127
                   \/ octets[1] = 192 /\ octets[2] = 168
                   \/ octets[1] = 172 /\ octets[2] >= 16 /\ octets[2] <= 31
                   \/ octets[1] = 169 /\ octets[2] = 254
             THEN TRUE
        ELSE IF ipVersion = 6
                /\ \/ lower = <<":", ":", "1">>
                   \/ StartsWith(lower, <<"f", "c">>)
                   \/ StartsWith(lower, <<"f", "d">>)
             THEN TRUE
        ELSE FALSE

(***************************************************************************)
(* new URL(target), for targets written  scheme ":" "//" host [":" port]   *)
(* [path]: the WHATWG parser lower-cases the scheme and the host, rewrites *)
(* a host that ends in a number as a dotted IPv4 address and keeps the     *)
(* brackets of an IPv6 literal in hostname.                                *)
(***************************************************************************)
\* the index of the first character of s that is in stops, Len(s) + 1 if none
FirstOf(s, stops) ==
    IF \E i \in DOMAIN s : s[i] \in stops
    THEN CHOOSE i \in DOMAIN s : s[i] \in stops /\ \A j \in 1..(i - 1) : s[j] \notin stops
    ELSE Len(s) + 1

RECURSIVE Pow256(_)
Pow256(n) == IF n = 0 THEN 1 ELSE 256 * Pow256(n - 1)

\* decimal text of a number
RECURSIVE FormatDecimal(_)
FormatDecimal(n) ==
    IF n < 10 THEN <<Chr(48 + n)>> ELSE FormatDecimal(n \div 10) \o <<Chr(48 + (n % 10))>>

\* a decimal text whose value fits the integers of TLC
Representable(s) ==
    \/ Len(s) <= 9
    \/ Len(s) = 10 /\ ParseDecimal(SubSeq(s, 1, 9)) < 214748364

\* the IPv4 parser on decimal parts: <<>> on failure, else the four octets;
\* the last part fills the bytes the parts before it leave.  (A last part of
\* 2^31 or more is taken as a failure: it does not fit the integers of TLC.)
ParseIPv4(host) ==
    LET raw   == Split(host, ".")
        parts == IF Len(raw) > 1 /\ raw[Len(raw)] = <<>>
                 THEN SubSeq(raw, 1, Len(raw) - 1) ELSE raw
        n     == Len(parts)
        v     == ParseDecimal(parts[n])
    IN  IF n > 4 \/ \E i \in DOMAIN parts : ~IsDecimal(parts[i]) \/ ~Representable(parts[i])
        THEN <<>>
        ELSE IF \E i \in 1..(n - 1) : ParseDecimal(parts[i]) > 255 THEN <<>>
        ELSE IF n > 1 /\ v >= Pow256(5 - n) THEN <<>>
        ELSE [ i \in 1..4 |->
                 IF i < n THEN ParseDecimal(parts[i]) ELSE (v \div Pow256(4 - i)) % 256 ]

SerializeIPv4(a) ==
    FormatDecimal(a[1]) \o <<".">> \o FormatDecimal(a[2]) \o <<".">>
    \o FormatDecimal(a[3]) \o <<".">> \o FormatDecimal(a[4])

\* the host parser: <<>> on failure, else <<hostname>>
ParseHost(input) ==
    LET lower == ToLowerCase(input)
        raw   == Split(lower, ".")
        last  == IF Len(raw) > 1 /\ raw[Len(raw)] = <<>> THEN raw[Len(raw) - 1]
                 ELSE raw[Len(raw)]
    IN  IF input = <<>> THEN <<>>
        ELSE IF input[1] = "[" THEN
            IF input[Len(input)] = "]" /\ IsIPv6(SubSeq(input, 2, Len(input) - 1))
            THEN <<lower>> ELSE <<>>
        ELSE IF \E i \in DOMAIN input : input[i] \in ({" ", "#", "/", ":", "<", ">", "?", "@", "[", "\\", "]", "^", "|", "%"}) THEN <<>>
        ELSE IF IsDecimal(last) THEN
            IF ParseIPv4(lower) = <<>> THEN <<>> ELSE <<SerializeIPv4(ParseIPv4(lower))>>
        ELSE <<lower>>

\* the authority split into <<host text, port text>>
SplitAuthority(authority) ==
    With(IF authority # <<>> /\ authority[1] = "["
         THEN (IF "]" \in Range(authority)
               THEN FirstOf(authority, {"]"}) + 1 ELSE Len(authority) + 1)
         ELSE FirstOf(authority, {":"}),
         LAMBDA hostEnd : <<SubSeq(authority, 1, hostEnd - 1),
                            SubSeq(authority, hostEnd, Len(authority))>>)

\* what follows "scheme:" split into <<authority, path>>
SplitAfterScheme(afterCol) ==
    With(IF StartsWith(afterCol, <<"/", "/">>) THEN SubSeq(afterCol, 3, Len(afterCol))
         ELSE afterCol,
         LAMBDA afterSl :
             With(FirstOf(afterSl, {"/", "?", "#", "\\"}),
                  LAMBDA authEnd : <<SubSeq(afterSl, 1, authEnd - 1),
                                     SubSeq(afterSl, authEnd, Len(afterSl))>>))

\* the URL record of a special scheme, <<>> when host or port is invalid
SpecialURL(scheme, host, port, path) ==
    IF host = <<>> THEN <<>>
    ELSE IF port # <<>> /\ ~(port[1] = ":" /\ \A i \in 2..Len(port) : IsDigit(port[i]))
    THEN <<>>
    ELSE <<[ protocol |-> scheme \o <<":">>, hostname |-> host[1],
             href |-> scheme \o <<":", "/", "/">> \o host[1]
                      \o (IF Len(port) > 1 THEN port ELSE <<>>)
                      \o (IF path = <<>> THEN <<"/">> ELSE path) ]>>

\* the URL record once the scheme is known
URLOfScheme(scheme, afterCol) ==
    IF \E i \in DOMAIN scheme :
           ~(IsAlpha(scheme[i]) \/ IsDigit(scheme[i]) \/ scheme[i] \in {"+", "-", "."})
    THEN <<>>
    ELSE IF scheme \notin ({ <<"h", "t", "t", "p">>, <<"h", "t", "t", "p", "s">>, <<"f", "t", "p">>, <<"w", "s">>, <<"w", "s", "s">>, <<"f", "i", "l", "e">> })
    THEN <<[ protocol |-> scheme \o <<":">>, hostname |-> <<>>,
             href |-> scheme \o <<":">> \o afterCol ]>>
    ELSE With(SplitAfterScheme(afterCol), LAMBDA ap :
             With(SplitAuthority(ap[1]), LAMBDA hp :
                 With(ParseHost(hp[1]), LAMBDA host :
                     SpecialURL(scheme, host, hp[2], ap[2]))))

\* new URL(target): <<>> when it throws, else <<[protocol, hostname, href]>>
ParseURL(target) ==
    With(IndexOf(target, ":"), LAMBDA colon :
        IF colon < 1 \/ ~IsAlpha(target[1]) THEN <<>>
        ELSE With(ToLowerCase(Slice(target, 0, colon)), LAMBDA scheme :
                 With(Slice(target, colon + 1, Len(target)), LAMBDA afterCol :
                     URLOfScheme(scheme, afterCol))))

(***************************************************************************)
(* The texts the inbound requests and the fetched pages are built from.    *)
(***************************************************************************)
\* "http://example.com/article?id=7"
UrlExample ==
    <<"h", "t", "t", "p", ":", "/", "/", "e", "x", "a", "m", "p", "l",
    "e", ".", "c", "o", "m", "/", "a", "r", "t", "i", "c", "l", "e", "?",
    "i", "d", "=", "7">>

\* "https://www.example.com/article"
RedirectedUrl ==
    <<"h", "t", "t", "p", "s", ":", "/", "/", "w", "w", "w", ".", "e", "x", "a", "m", "p",
    "l", "e", ".", "c", "o", "m", "/", "a", "r", "t", "i", "c", "l", "e">>

\* "http://127.0.0.1/x"
UrlLoopback ==
    <<"h", "t", "t", "p", ":", "/", "/", "1", "2", "7", ".", "0", ".",
    "0", ".", "1", "/", "x">>

\* "ftp://example.com/f"
UrlFtp ==
    <<"f", "t", "p", ":", "/", "/", "e", "x", "a", "m", "p", "l", "e",
    ".", "c", "o", "m", "/", "f">>

\* "application/xhtml+xml"
ApplicationXhtml ==
    <<"a", "p", "p", "l", "i", "c", "a", "t", "i", "o", "n", "/", "x",
    "h", "t", "m", "l", "+", "x", "m", "l">>

\* "Amazing Gadget"
PageTitle ==
    <<"A", "m", "a", "z", "i", "n", "g", " ", "G", "a", "d", "g", "e",
    "t">>

\* "All the reasons"
PageDescription ==
    <<"A", "l", "l", " ", "t", "h", "e", " ", "r", "e", "a", "s", "o",
    "n", "s">>

\* "https://example.com/img/a.png"
PageImage ==
    <<"h", "t", "t", "p", "s", ":", "/", "/", "e", "x", "a", "m", "p",
    "l", "e", ".", "c", "o", "m", "/", "i", "m", "g", "/", "a", ".", "p",
    "n", "g">>

\* "Other title"
OtherTitle ==
    <<"O", "t", "h", "e", "r", " ", "t", "i", "t", "l", "e">>

\* "/img/a.png"
RelativeImage ==
    <<"/", "i", "m", "g", "/", "a", ".", "p", "n", "g">>

\* "  "
BlankText ==
    <<" ", " ">>

\* "Example News"
SiteNameText ==
    <<"E", "x", "a", "m", "p", "l", "e", " ", "N", "e", "w", "s">>

\* "@example"
SiteHandleText ==
    <<"@", "e", "x", "a", "m", "p", "l", "e">>

\* "www."
WwwPrefix ==
    <<"w", "w", "w", ".">>

\* "http:"
HttpProtocol ==
    <<"h", "t", "t", "p", ":">>

\* "https:"
HttpsProtocol ==
    <<"h", "t", "t", "p", "s", ":">>

\* "json"
Json ==
    <<"j", "s", "o", "n">>

\* "old:tok"
LegacyToken ==
    <<"o", "l", "d", ":", "t", "o", "k">>

(***************************************************************************)
(* Inbound requests.                                                       *)
(***************************************************************************)
\* how the client writes its Authorization header
ClientCredentials ==
    { [ scheme |-> "none", payload |-> <<>> ],
      [ scheme |-> "Token", payload |-> <<"u", ":", "p">> ] }
    \cup [ scheme : {"Basic", "BASIC", "Bearer", "bearer"}, payload : (SeqsUpTo({"u", "p", ":"}, MaxPayloadLen)) ]

AuthorizationOf(c) ==
    CASE c.scheme = "none"   -> <<>>
      [] c.scheme = "Token"  -> <<"T", "o", "k", "e", "n">> \o <<" ">> \o c.payload
      [] c.scheme = "Basic"  -> Basic \o <<" ">> \o Base64Encode(c.payload)
      [] c.scheme = "BASIC"  -> <<"B", "A", "S", "I", "C", " ", " ">> \o Base64Encode(c.payload)
      [] c.scheme = "Bearer" -> Bearer \o <<" ">> \o c.payload
      [] c.scheme = "bearer" -> <<"b", "e", "a", "r", "e", "r", "\t", " ">> \o c.payload \o <<" ">>

Targets ==
    {
      UrlExample,
      \* "https://93.184.216.34/"
      <<"h", "t", "t", "p", "s", ":", "/", "/", "9", "3", ".", "1", "8", "4", ".", "2", "1", "6", ".", "3", "4", "/">>,
      \* "http://172.32.0.1/"
      <<"h", "t", "t", "p", ":", "/", "/", "1", "7", "2", ".", "3", "2", ".", "0", ".", "1", "/">>,
      UrlLoopback,
      \* "http://2130706433/"
      <<"h", "t", "t", "p", ":", "/", "/", "2", "1", "3", "0", "7", "0", "6", "4", "3", "3", "/">>,
      \* "http://10.1.2.3/"
      <<"h", "t", "t", "p", ":", "/", "/", "1", "0", ".", "1", ".", "2", ".", "3", "/">>,
      \* "http://172.16.0.1/"
      <<"h", "t", "t", "p", ":", "/", "/", "1", "7", "2", ".", "1", "6", ".", "0", ".", "1", "/">>,
      \* "http://192.168.1.1/"
      <<"h", "t", "t", "p", ":", "/", "/", "1", "9", "2", ".", "1", "6", "8", ".", "1", ".", "1", "/">>,
      \* "http://169.254.169.254/latest"
      <<"h", "t", "t", "p", ":", "/", "/", "1", "6", "9", ".", "2", "5", "4", ".", "1", "6", "9", ".", "2", "5", "4", "/", "l", "a", "t", "e", "s", "t">>,
      \* "HTTP://LocalHost:3000/"
      <<"H", "T", "T", "P", ":", "/", "/", "L", "o", "c", "a", "l", "H", "o", "s", "t", ":", "3", "0", "0", "0", "/">>,
      \* "http://app.localhost/"
      <<"h", "t", "t", "p", ":", "/", "/", "a", "p", "p", ".", "l", "o", "c", "a", "l", "h", "o", "s", "t", "/">>,
      \* "http://[::1]/x"
      <<"h", "t", "t", "p", ":", "/", "/", "[", ":", ":", "1", "]", "/", "x">>,
      \* "http://[fd12:3456::1]/"
      <<"h", "t", "t", "p", ":", "/", "/", "[", "f", "d", "1", "2", ":", "3", "4", "5", "6", ":", ":", "1", "]", "/">>,
      \* "http://[2001:db8::1]/"
      <<"h", "t", "t", "p", ":", "/", "/", "[", "2", "0", "0", "1", ":", "d", "b", "8", ":", ":", "1", "]", "/">>,
      UrlFtp,
      \* "example.com/page"
      <<"e", "x", "a", "m", "p", "l", "e", ".", "c", "o", "m", "/", "p", "a", "g", "e">>,
      \* "http://"
      <<"h", "t", "t", "p", ":", "/", "/">> }

LegacyQueries ==
    { <<>>, <<[ key |-> "auth_token", values |-> <<LegacyToken>> ]>> }

\* the requests to the enrichment route: every credential with the core
\* queries, and every query with the core credentials
SuggestRequests ==
    (ClientCredentials
       \X { <<[ key |-> "url", values |-> <<UrlExample>> ]>> \o q : q \in LegacyQueries })
    \cup
    ({ [ scheme |-> "none", payload |-> <<>> ],
       [ scheme |-> "Basic", payload |-> <<"u", ":", "p">> ],
       [ scheme |-> "Bearer", payload |-> <<"u", ":", "p">> ] }
       \X (LegacyQueries
            \cup { <<[ key |-> "url", values |-> v ]>> \o q :
                     \* url given once (also as the empty text), or several times
                     v \in { <<t>> : t \in Targets \cup {<<>>} }
                           \cup { <<UrlExample, UrlLoopback>>, <<UrlLoopback, UrlExample>>,
                                  <<UrlFtp, UrlExample>>, <<UrlExample, UrlFtp>>,
                                  << <<>>, UrlExample >> },
                     q \in LegacyQueries }))

V1Requests ==
    ClientCredentials
    \X (LegacyQueries
        \cup { <<[ key |-> "format", values |-> <<Json>> ]>>,
               <<[ key |-> "auth_token", values |-> <<LegacyToken, <<"u", ":", "p">> >> ],
                 [ key |-> "format", values |-> <<Json>> ]>>,
               <<[ key |-> "tag", values |-> <<Json>> ],
                 [ key |-> "auth_token", values |-> << <<"u", ":", "p">> >> ]>> })

\* req.query[key]: the values of a parameter, <<>> when it was not given
QueryGet(query, key) ==
    IF \E i \in DOMAIN query : query[i].key = key
    THEN query[CHOOSE i \in DOMAIN query : query[i].key = key].values
    ELSE <<>>

(***************************************************************************)
(* Promises and what the outbound calls can answer.                        *)
(***************************************************************************)
NoPromise == [ status |-> "none", value |-> <<>>, reason |-> <<>> ]

Pending == [ status |-> "pending", value |-> <<>>, reason |-> <<>> ]

Fulfilled(v) == [ status |-> "fulfilled", value |-> <<v>>, reason |-> <<>> ]

Rejected(e) == [ status |-> "rejected", value |-> <<>>, reason |-> <<e>> ]

Settled(p) == p.status \in {"fulfilled", "rejected"}

\* an axios error: with the upstream's response when it answered, else
\* with a code
AxiosError(message, code, response) ==
    [ message |-> message, code |-> code, response |-> response ]

\* an upstream body that is a whole document
UpstreamErrorPage ==
    "<html><head><title>502 Bad Gateway</title></head><body><h1>Bad Gateway</h1><p>upstream request: GET /v1/posts/suggest</p></body></html>"

\* error.response.data is a text (a status line or a whole document), an
\* object with an error member or another object
UpstreamFailures ==
    { AxiosError("Request failed with status code 502", "ERR_BAD_RESPONSE",
                 <<[ status |-> 502, dataKind |-> "string", data |-> UpstreamErrorPage ]>>),
      AxiosError("Request failed with status code 401", "ERR_BAD_REQUEST",
                 <<[ status |-> 401, dataKind |-> "string", data |-> "401 Forbidden" ]>>),
      AxiosError("Request failed with status code 429", "ERR_BAD_REQUEST",
                 <<[ status |-> 429, dataKind |-> "errorObject", data |-> "Too Many Requests" ]>>),
      AxiosError("Request failed with status code 500", "ERR_BAD_RESPONSE",
                 <<[ status |-> 500, dataKind |-> "object", data |-> "result_code" ]>>),
      AxiosError("timeout of 30000ms exceeded", "ECONNABORTED", <<>>),
      AxiosError("getaddrinfo ENOTFOUND api.pinboard.in", "ENOTFOUND", <<>>) }

PreviewTimeoutMs == 5000

PreviewMaxRedirects == 3

previewRequestConfig ==
    [ timeout |-> PreviewTimeoutMs, maxRedirects |-> PreviewMaxRedirects,
      maxContentLength |-> 2 * 1024 * 1024 ]

(***************************************************************************)
(* The fetched document: its elements in document order.  An element has   *)
(* a tag, the attributes the selectors test (name, property, rel, type)    *)
(* and the attributes and text a value is read from.                       *)
(***************************************************************************)
MetaTag(attr, key, content) ==
    [ tag |-> "meta", name |-> IF attr = "name" THEN key ELSE "",
      property |-> IF attr = "property" THEN key ELSE "", rel |-> "", type |-> "",
      content |-> content, value |-> <<>>, href |-> <<>>, text |-> <<>> ]

LinkTag(rel, type, href) ==
    [ tag |-> "link", name |-> "", property |-> "", rel |-> rel, type |-> type,
      content |-> <<>>, value |-> <<>>, href |-> href, text |-> <<>> ]

TitleTag(text) ==
    [ tag |-> "title", name |-> "", property |-> "", rel |-> "", type |-> "",
      content |-> <<>>, value |-> <<>>, href |-> <<>>, text |-> text ]

\* the selectors: tag[attr="is"], with [type="..."] when type is given
MetaName(n) == [ tag |-> "meta", attr |-> "name", is |-> n, type |-> "" ]

MetaProperty(p) == [ tag |-> "meta", attr |-> "property", is |-> p, type |-> "" ]

LinkRel(r, t) == [ tag |-> "link", attr |-> "rel", is |-> r, type |-> t ]

\* the element is selected by the selector
Matches(element, selector) ==
    /\ element.tag = selector.tag
    /\ selector.attr # "" => element[selector.attr] = selector.is
    /\ selector.type # "" => element.type = selector.type

\* the documents the preview fetch of a request can return: html is the
\* element list, throws a body cheerio cannot load
Page(html) == [ throws |-> FALSE, html |-> html ]

Pages ==
    { Page(<<>>),
      Page(<<MetaTag("name", "twitter:title", PageTitle)>>),
      Page(<<MetaTag("name", "description", PageDescription)>>),
      Page(<<MetaTag("property", "og:image", RelativeImage)>>),
      Page(<<MetaTag("property", "og:image", <<"h", "t", "t", "p", ":", "/", "/">>)>>),
      Page(<<MetaTag("name", "twitter:card", <<"s", "u", "m", "m", "a", "r", "y">>),
             MetaTag("property", "og:site_name", SiteNameText),
             LinkTag("icon", "", <<"/", "f", "a", "v", "i", "c", "o", "n", ".", "i", "c", "o">>)>>),
      Page(<<MetaTag("name", "twitter:title", BlankText),
             MetaTag("property", "og:title", OtherTitle),
             MetaTag("name", "twitter:image", PageImage)>>),
      Page(<<LinkTag("canonical", "", <<"/", "c", "a", "n", "o", "n", "i", "c", "a", "l">>), TitleTag(PageTitle),
             MetaTag("name", "twitter:site", SiteHandleText)>>),
      [ throws |-> TRUE, html |-> <<>> ] }

\* the redirects a target can answer with, which axios follows up to
\* maxRedirects: the URLs requested after the target, in order
RedirectChains ==
    { <<RedirectedUrl>>, <<UrlLoopback>>,
      [ i \in 1..PreviewMaxRedirects |->
          IF i = PreviewMaxRedirects THEN UrlLoopback ELSE RedirectedUrl ] }

\* how axios.get(targetUrl, previewRequestConfig) settles; hops are the
\* redirects followed before
PreviewFetchOutcomes ==
    { [ kind |-> "error", message |-> m, contentType |-> <<>>, page |-> <<>>, hops |-> <<>> ] :
        m \in { "timeout of 5000ms exceeded", "maxContentLength size of 2097152 exceeded",
                "Request failed with status code 404", "" } }
    \cup { [ kind |-> "error", message |-> "Maximum number of redirects exceeded",
             contentType |-> <<>>, page |-> <<>>, hops |-> h ] :
             h \in { c \in RedirectChains : Len(c) = PreviewMaxRedirects } }
    \cup { [ kind |-> "error", message |-> "connect ECONNREFUSED 127.0.0.1:80",
             contentType |-> <<>>, page |-> <<>>, hops |-> <<UrlLoopback>> ] }
    \cup { [ kind |-> "response", message |-> "", contentType |-> ApplicationXhtml,
             page |-> <<Page(<<MetaTag("name", "twitter:title", PageTitle)>>)>>, hops |-> h ] :
             h \in RedirectChains }
    \cup { [ kind |-> "response", message |-> "", hops |-> <<>>,
             \* "text/html; charset=utf-8"
             contentType |-> <<"t", "e", "x", "t", "/", "h", "t", "m", "l", ";", " ", "c", "h",
                               "a", "r", "s", "e", "t", "=", "u", "t", "f", "-", "8">>,
             page |-> <<pg>> ] :
             pg \in Pages }
    \cup { [ kind |-> "response", message |-> "", contentType |-> ct, hops |-> <<>>,
             page |-> <<Page(<<MetaTag("name", "twitter:title", PageTitle)>>)>> ] :
             \* "application/json", no header, "application/xhtml+xml"
             ct \in { <<"a", "p", "p", "l", "i", "c", "a", "t", "i", "o", "n", "/", "j", "s",
                        "o", "n">>,
                      <<>>, ApplicationXhtml } }

(***************************************************************************)
(* Preview fetch and metadata extraction.                                  *)
(***************************************************************************)
\* scheme://host[:port] of a serialized http(s) URL
Origin(href) ==
    LET colon == IndexOf(href, ":")
        rest  == Slice(href, colon + 3, Len(href))
    IN  SubSeq(href, 1, colon + 3 + FirstOf(rest, {"/", "?", "#"}) - 1)

\* new URL(value, baseUrl).toString(), null (<<>>) when value is empty or
\* the constructor throws; value is an absolute URL, "//host/path" or
\* "/path"
resolveAbsoluteUrl(baseUrl, value) ==
    IF value = <<>> THEN <<>>
    ELSE With(ParseURL(value), LAMBDA absolute :
        IF absolute # <<>> THEN absolute[1].href
        ELSE With(ParseURL(baseUrl), LAMBDA base :
            IF base = <<>> THEN <<>>
            ELSE IF StartsWith(value, <<"/", "/">>)
            THEN With(ParseURL(base[1].protocol \o value), LAMBDA u :
                     IF u = <<>> THEN <<>> ELSE u[1].href)
            ELSE IF value[1] = "/" THEN Origin(base[1].href) \o value
            ELSE <<>>))

\* new URL(urlString).hostname.replace(/^www\./i, ''), null when it throws
deriveSiteDomain(urlString) ==
    With(ParseURL(urlString), LAMBDA parsed :
        IF parsed = <<>> THEN <<>>
        ELSE IF StartsWith(ToLowerCase(parsed[1].hostname), WwwPrefix)
        THEN Slice(parsed[1].hostname, Len(WwwPrefix), Len(parsed[1].hostname))
        ELSE parsed[1].hostname)

\* the default of pickMetaValue's third parameter
AttributePreference == <<"content", "value", "href">>

\* the indices of the elements a selector selects
Selected(html, selector) == { i \in DOMAIN html : Matches(html[i], selector) }

\* pickMetaValue($, selector, attributePreference): the trimmed text of the
\* FIRST element the selector selects, null (<<>>) when there is no such
\* element or its text is blank
pickMetaValue(html, selector, attributePreference) ==
    IF Selected(html, selector) = {} THEN <<>>
    ELSE LET element == html[CHOOSE i \in Selected(html, selector) :
                                 \A j \in Selected(html, selector) : i <= j]
             usable  == { k \in DOMAIN attributePreference :
                            Trim(element[attributePreference[k]]) # <<>> }
         IN  IF selector.tag = "meta" /\ usable # {}
             THEN Trim(element[attributePreference[
                          CHOOSE k \in usable : \A j \in usable : k <= j]])
             ELSE IF selector.tag = "link" THEN Trim(element.href)
             ELSE Trim(element.text)

\* a || b || ... : the first value that is not null, null if there is none
FirstTruthy(values) ==
    IF \A k \in DOMAIN values : values[k] = <<>> THEN <<>>
    ELSE values[CHOOSE k \in DOMAIN values :
                    values[k] # <<>> /\ \A j \in 1..(k - 1) : values[j] = <<>>]

\* a chain pickMetaValue($, s1) || pickMetaValue($, s2) || ...
PickAlong(html, selectors) ==
    FirstTruthy([ k \in DOMAIN selectors |->
                    pickMetaValue(html, selectors[k], AttributePreference) ])

pickMetaValueWithSource(html, selectors) ==
    LET values == [ k \in DOMAIN selectors |->
                      pickMetaValue(html, selectors[k], AttributePreference) ]
    IN  IF \A k \in DOMAIN values : values[k] = <<>>
        THEN [ value |-> <<>>, source |-> <<>> ]
        ELSE LET k == CHOOSE k \in DOMAIN values :
                          values[k] # <<>> /\ \A j \in 1..(k - 1) : values[j] = <<>>
             IN  [ value |-> values[k], source |-> <<selectors[k]>> ]

FAVICON_SELECTORS ==
    << LinkRel("apple-touch-icon", ""), LinkRel("apple-touch-icon-precomposed", ""),
       LinkRel("icon", "image/png"), LinkRel("icon", "image/svg+xml"),
       LinkRel("mask-icon", ""), LinkRel("icon", ""), LinkRel("shortcut icon", "") >>

selectFavicon(html) ==
    FirstTruthy([ k \in DOMAIN FAVICON_SELECTORS |->
                    pickMetaValue(html, FAVICON_SELECTORS[k], <<"href">>) ])

\* the selector lists of extractPreviewMetadata, in the order of the code
TitleSelectors ==
    << MetaName("twitter:title"), MetaProperty("og:title"), MetaName("title"), ([ tag |-> "title", attr |-> "", is |-> "", type |-> "" ]) >>

DescriptionSelectors ==
    << MetaName("twitter:description"), MetaProperty("og:description"), MetaName("description") >>

ImageSelectors ==
    << MetaName("twitter:image"), MetaName("twitter:image:src"), MetaProperty("og:image") >>

SiteNameSelectors == << MetaProperty("og:site_name"), MetaName("application-name") >>

SiteHandleSelectors == << MetaName("twitter:site"), MetaName("twitter:creator") >>

ThemeColorSelectors ==
    << MetaName("theme-color"), MetaName("msapplication-TileColor"),
       MetaName("msapplication-navbutton-color") >>

\* siteHandle.replace(/^@/, '').trim() appended to the twitter address,
\* null when nothing is left of the handle
SiteHandleUrlOf(siteHandle) ==
    LET normalizedHandle ==
            Trim(IF siteHandle # <<>> /\ siteHandle[1] = "@"
                 THEN Slice(siteHandle, 1, Len(siteHandle)) ELSE siteHandle)
    IN  IF normalizedHandle = <<>> THEN <<>>
        \* "https://twitter.com/"
        ELSE <<"h", "t", "t", "p", "s", ":", "/", "/", "t", "w", "i", "t", "t", "e", "r", ".",
               "c", "o", "m", "/">> \o normalizedHandle

\* an extractor that never returns null
NothingFoundNever(title, description, imageUrl) == FALSE

\* !title && !description && !imageUrl
NothingFound(title, description, imageUrl) ==
    title = <<>> /\ description = <<>> /\ imageUrl = <<>>

\* extractPreviewMetadata(html, finalUrl, originalUrl): null (<<>>) or
\* <<record>>, a null member being <<>>; fetchedAt, the time of the call,
\* is left out
extractPreviewMetadata(html, finalUrl, originalUrl) ==
    With(FirstTruthy(<<resolveAbsoluteUrl(finalUrl, PickAlong(html, (<< LinkRel("canonical", ""), MetaProperty("og:url"), MetaName("twitter:url") >>))),
                       finalUrl, originalUrl>>), LAMBDA canonicalUrl :
    With(resolveAbsoluteUrl(canonicalUrl, PickAlong(html, ImageSelectors)), LAMBDA imageUrl :
        LET title       == PickAlong(html, TitleSelectors)
            description == PickAlong(html, DescriptionSelectors)
            siteHandle  == pickMetaValueWithSource(html, SiteHandleSelectors).value
        IN  IF NothingFound(title, description, imageUrl)
            THEN <<>>
            ELSE <<[ url           |-> canonicalUrl,
                     title         |-> title,
                     description   |-> description,
                     imageUrl      |-> imageUrl,
                     siteName      |-> PickAlong(html, SiteNameSelectors),
                     siteHandle    |-> siteHandle,
                     siteHandleUrl |-> SiteHandleUrlOf(siteHandle),
                     siteDomain    |-> deriveSiteDomain(FirstTruthy(<<canonicalUrl, originalUrl>>)),
                     cardType      |-> pickMetaValue(html, MetaName("twitter:card"),
                                                     AttributePreference),
                     themeColor    |-> PickAlong(html, ThemeColorSelectors),
                     faviconUrl    |-> resolveAbsoluteUrl(
                                           FirstTruthy(<<canonicalUrl, finalUrl, originalUrl>>),
                                           selectFavicon(html)),
                     status        |-> "fresh" ]>>))

\* what fetchPreview(targetUrl) settles as once axios.get has settled
fetchPreview(targetUrl, outcome) ==
    IF outcome.kind = "error" THEN Rejected([ message |-> outcome.message ])
    ELSE IF ~Includes(outcome.contentType, <<"t", "e", "x", "t", "/", "h", "t", "m", "l">>)
            /\ ~Includes(outcome.contentType, ApplicationXhtml)
         THEN Rejected([ message |-> "Preview response is not HTML" ])
    ELSE IF outcome.page[1].throws
         THEN Rejected([ message |-> "Cannot read properties of undefined" ])
    ELSE Fulfilled(extractPreviewMetadata(
             outcome.page[1].html,
             \* response.request?.res?.responseUrl || targetUrl.toString()
             IF outcome.hops # <<>> THEN outcome.hops[Len(outcome.hops)] ELSE targetUrl.href,
             targetUrl.href))

(***************************************************************************)
(* The preview limiter in front of the enrichment route.                   *)
(***************************************************************************)
PreviewRateWindowMs == 60000

PreviewRateMax == 30

\* keyGenerator: req.headers['authorization'] || req.ip
keyGenerator(authorization) == IF authorization # <<>> THEN authorization ELSE (<<"1", "9", "2", ".", "0", ".", "2", ".", "7">>)

\* the store's count for a key in the current window
HitsOf(store, key) == IF key \in DOMAIN store THEN store[key] ELSE 0

\* the store counts one more request for the key; counts are kept up to
\* max + 1, beyond which the limiter decides the same
Increment(store, key) ==
    [ k \in DOMAIN store \cup {key} |->
        IF k # key THEN store[k]
        ELSE IF HitsOf(store, key) > PreviewRateMax THEN HitsOf(store, key)
        ELSE HitsOf(store, key) + 1 ]

\* the store at the start of a window
EmptyStore == [ k \in {} |-> 0 ]

\* the limiter on a request: the store afterwards, whether the request is
\* passed on to the handler, and the RateLimit-* headers of the response
previewRateLimiter(store, authorization) ==
    With(Increment(store, keyGenerator(authorization)), LAMBDA after :
        [ store  |-> after,
          passed |-> after[keyGenerator(authorization)] <= PreviewRateMax,
          headers |-> [ limit |-> PreviewRateMax,
                        remaining |-> IF after[keyGenerator(authorization)] >= PreviewRateMax
                                      THEN 0
                                      ELSE PreviewRateMax - after[keyGenerator(authorization)],
                        reset |-> PreviewRateWindowMs \div 1000 ] ])

\* the limiter's answer to a request it does not pass on
TooManyPreviewRequests(headers) ==
    <<[ status |-> 429, body |-> [ error |-> "Too many preview requests, please slow down." ],
        headers |-> headers ]>>

\* the token an Authorization header carries, <<>> if none
TokenOf(authorization) ==
    With(MatchScheme(authorization, Basic), LAMBDA basicMatch :
        IF basicMatch # <<>> THEN Base64Decode(basicMatch[1])
        ELSE With(MatchScheme(authorization, Bearer), LAMBDA bearerMatch :
                 IF bearerMatch # <<>> THEN BearerToken(bearerMatch[1]) ELSE <<>>))

\* one more request with the header's token was passed on to the handler
Reach(counts, authorization) ==
    [ t \in DOMAIN counts \cup {TokenOf(authorization)} |->
        HitsOf(counts, t) + (IF t = TokenOf(authorization) THEN 1 ELSE 0) ]

(***************************************************************************)
(* The route handlers.                                                     *)
(***************************************************************************)
ApiRequest(path, params, config) ==
    [ kind |-> "api", hostname |-> (<<"a", "p", "i", ".", "p", "i", "n", "b", "o", "a", "r", "d", ".", "i", "n">>), path |-> path, url |-> <<>>,
      params |-> params, config |-> config ]

PreviewRequest(url) ==
    [ kind |-> "preview", hostname |-> url.hostname, path |-> "", url |-> url.href,
      params |-> <<>>, config |-> previewRequestConfig ]

\* res.status(status).json(body)
Respond(status, body) == <<[ status |-> status, body |-> body ]>>

NoUrl == [ protocol |-> <<>>, hostname |-> <<>>, href |-> <<>> ]

NoAuth == AuthThrows("", <<>>)

Init ==
    /\ pc = "idle"
    /\ req = [ route |-> "", path |-> "", credential |-> [ scheme |-> "none", payload |-> <<>> ],
               authorization |-> <<>>, query |-> <<>> ]
    /\ normalizedUrl = NoUrl
    /\ authContext = NoAuth
    /\ outbound = <<>>
    /\ suggestionsPromise = NoPromise
    /\ previewPromise = NoPromise
    /\ previewResponse = <<>>
    /\ proxyPromise = NoPromise
    /\ res = <<>>
    /\ logged = <<>>
    /\ previewHits = EmptyStore
    /\ reached = EmptyStore
    /\ probe = ([ fn |-> "none", input |-> <<>>, output |-> <<>> ])
    /\ inflight = [ i \in 1..MaxInflight |->
                      [ pc |-> "idle", req |-> <<>>, authContext |-> <<>>,
                        outbound |-> <<>>, res |-> <<>> ] ]
    /\ sharedDefaults = [ api |-> apiRequestDefaults, preview |-> previewRequestConfig ]

\* a request for the enrichment route passes the limiter and enters the handler
ReceiveSuggest ==
    /\ pc = "idle"
    /\ \E r \in SuggestRequests :
          req' = [ route |-> "suggest", path |-> "/posts/suggest-with-preview",
                   credential |-> r[1], authorization |-> AuthorizationOf(r[1]),
                   query |-> r[2] ]
    /\ \E limited \in { previewRateLimiter(previewHits, req'.authorization) } :
          /\ limited.passed
          /\ previewHits' = limited.store
    /\ reached' = Reach(reached, req'.authorization)
    /\ pc' = "received"
    /\ UNCHANGED <<previewResponse, logged, probe, inflight, sharedDefaults>>
    /\ UNCHANGED <<normalizedUrl, authContext, outbound, suggestionsPromise,
                   previewPromise, proxyPromise, res>>

\* a request for the proxy route is admitted
ReceiveV1 ==
    /\ pc = "idle"
    /\ \E r \in V1Requests :
          req' = [ route |-> "v1", path |-> "/v1/posts/all",
                   credential |-> r[1], authorization |-> AuthorizationOf(r[1]),
                   query |-> r[2] ]
    /\ pc' = "received"
    /\ UNCHANGED <<previewResponse, logged, previewHits, reached, probe, inflight, sharedDefaults>>
    /\ UNCHANGED <<normalizedUrl, authContext, outbound, suggestionsPromise,
                   previewPromise, proxyPromise, res>>

\* a handler that reads the last url value
TargetOfLast(query) ==
    IF QueryGet(query, "url") = <<>> THEN <<>>
    ELSE QueryGet(query, "url")[Len(QueryGet(query, "url"))]

\* the target the enrichment handler reads: the first url value
TargetOf(query) ==
    IF QueryGet(query, "url") = <<>> THEN <<>> ELSE QueryGet(query, "url")[1]

\* the validation of the parsed target: the 400 answer, <<>> when it passes
ValidateURL(target, parsed) ==
    IF target = <<>>
    THEN Respond(400, [ error |-> "url query parameter is required" ])
    ELSE IF parsed = <<>>
    THEN Respond(400, [ error |-> "Invalid url parameter" ])
    ELSE IF parsed[1].protocol \notin {HttpProtocol, HttpsProtocol}
    THEN Respond(400, [ error |-> "URL must use http or https" ])
    ELSE IF isPrivateHostname(parsed[1].hostname)
    THEN Respond(400, [ error |-> "URL host is not reachable from the proxy" ])
    ELSE <<>>

SuggestValidate ==
    /\ pc = "received"
    /\ req.route = "suggest"
    /\ \E parsed \in { IF TargetOf(req.query) = <<>> THEN <<>>
                       ELSE ParseURL(TargetOf(req.query)) } :
       \E answer \in { ValidateURL(TargetOf(req.query), parsed) } :
          IF answer # <<>>
          THEN /\ res' = answer
               /\ pc' = "done"
               /\ UNCHANGED normalizedUrl
          ELSE /\ normalizedUrl' = parsed[1]
               /\ pc' = "validated"
               /\ UNCHANGED res
    /\ UNCHANGED <<previewResponse, logged, previewHits, reached, probe, inflight, sharedDefaults>>
    /\ UNCHANGED <<req, authContext, outbound, suggestionsPromise, previewPromise,
                   proxyPromise>>

\* pinboardParams before the credentials are applied
SuggestParams(url) == << <<"url", url.href>>, <<"format", Json>> >>

SuggestAuth ==
    /\ pc = "validated"
    /\ authContext' = applyAuthContext(req.authorization, SuggestParams(normalizedUrl))
    /\ IF authContext'.threw
       THEN /\ res' = Respond(401, [ error |-> authContext'.error ])
            /\ pc' = "done"
       ELSE /\ pc' = "authed"
            /\ UNCHANGED res
    /\ UNCHANGED <<previewResponse, logged, previewHits, reached, probe, inflight, sharedDefaults>>
    /\ UNCHANGED <<req, normalizedUrl, outbound, suggestionsPromise, previewPromise,
                   proxyPromise>>

\* both calls are started, then the handler awaits Promise.allSettled
SuggestDispatch ==
    /\ pc = "authed"
    /\ req.route = "suggest"
    /\ outbound' = outbound
                   \o <<ApiRequest("/v1/posts/suggest", authContext.queryParams,
                                   authContext.requestConfig),
                        PreviewRequest(normalizedUrl)>>
    /\ suggestionsPromise' = Pending
    /\ previewPromise' = Pending
    /\ pc' = "awaiting"
    /\ UNCHANGED <<previewResponse, logged, previewHits, reached, probe, inflight, sharedDefaults>>
    /\ UNCHANGED <<req, normalizedUrl, authContext, proxyPromise, res>>

SuggestionSettles ==
    /\ pc = "awaiting"
    /\ suggestionsPromise.status = "pending"
    /\ \/ \E a \in ({ [ status |-> 200, dataKind |-> "object", data |-> "popular+recommended" ] }) : suggestionsPromise' = Fulfilled(a)
       \/ \E e \in UpstreamFailures : suggestionsPromise' = Rejected(e)
    /\ UNCHANGED <<previewResponse, logged, previewHits, reached, probe, inflight, sharedDefaults>>
    /\ UNCHANGED <<pc, req, normalizedUrl, authContext, outbound, previewPromise,
                   proxyPromise, res>>

PreviewSettles ==
    /\ pc = "awaiting"
    /\ previewPromise.status = "pending"
    /\ \E o \in PreviewFetchOutcomes :
          /\ previewResponse' = <<o>>
          /\ previewPromise' = fetchPreview(normalizedUrl, o)
    /\ UNCHANGED <<logged, previewHits, reached, probe, inflight, sharedDefaults>>
    /\ UNCHANGED <<pc, req, normalizedUrl, authContext, outbound, suggestionsPromise,
                   proxyPromise, res>>

\* an await that ends as soon as the suggestion call has rejected, without
\* the preview fetch
AllSettledFailFast ==
    \/ suggestionsPromise.status = "rejected"
    \/ Settled(suggestionsPromise) /\ Settled(previewPromise)

\* Promise.allSettled([suggestionsPromise, previewPromise]) has resolved
AllSettled == Settled(suggestionsPromise) /\ Settled(previewPromise)

\* the answer to a failed Pinboard call without the timeout branch
UpstreamErrorAnswerNoTimeout(error) ==
    IF error.response # <<>>
    THEN Respond(error.response[1].status,
                 [ error |-> IF error.response[1].dataKind \in {"string", "errorObject"}
                             THEN error.response[1].data
                             ELSE "API request failed" ])
    ELSE Respond(500, [ error |-> "Internal server error" ])

\* the answer to a failed Pinboard call
UpstreamErrorAnswer(error) ==
    IF error.response # <<>>
    THEN Respond(error.response[1].status,
                 [ error |-> IF error.response[1].dataKind \in {"string", "errorObject"}
                             THEN error.response[1].data
                             ELSE "API request failed" ])
    ELSE IF error.code = "ECONNABORTED"
    THEN Respond(504, [ error |-> "Gateway timeout" ])
    ELSE Respond(500, [ error |-> "Internal server error" ])

\* the merged payload without the fallback text of previewError
MergedPayloadRawMessage(suggestionsResult, previewResult) ==
    LET preview       == IF previewResult.status = "fulfilled"
                         THEN previewResult.value[1] ELSE <<>>
        previewError  == IF previewResult.status = "fulfilled" THEN ""
                         ELSE previewResult.reason[1].message
        previewStatus == IF previewResult.status = "fulfilled"
                         THEN (IF preview # <<>> THEN preview[1].status ELSE "no_data")
                         ELSE "error"
    IN  IF previewError # ""
        THEN [ suggestions |-> suggestionsResult.value[1].data, preview |-> preview,
               previewStatus |-> previewStatus, previewError |-> previewError ]
        ELSE [ suggestions |-> suggestionsResult.value[1].data, preview |-> preview,
               previewStatus |-> previewStatus ]

\* a merge that sets the previewError member unconditionally
MergedPayloadErrorAlways(suggestionsResult, previewResult) ==
    LET preview       == IF previewResult.status = "fulfilled"
                         THEN previewResult.value[1] ELSE <<>>
        previewError  == IF previewResult.status = "fulfilled" THEN ""
                         ELSE IF previewResult.reason[1].message # ""
                         THEN previewResult.reason[1].message
                         ELSE "Failed to fetch preview metadata"
        previewStatus == IF previewResult.status = "fulfilled"
                         THEN (IF preview # <<>> THEN preview[1].status ELSE "no_data")
                         ELSE "error"
    IN  [ suggestions |-> suggestionsResult.value[1].data, preview |-> preview,
          previewStatus |-> previewStatus, previewError |-> previewError ]

\* a merge that leaves previewStatus at its initial value when the
\* extractor found no data
MergedPayloadStatusNone(suggestionsResult, previewResult) ==
    LET preview == IF previewResult.status = "fulfilled" THEN previewResult.value[1] ELSE <<>>
    IN  IF previewResult.status # "fulfilled"
        THEN [ suggestions |-> suggestionsResult.value[1].data, preview |-> <<>>,
               previewStatus |-> "error",
               previewError |-> IF previewResult.reason[1].message # ""
                                THEN previewResult.reason[1].message
                                ELSE "Failed to fetch preview metadata" ]
        ELSE [ suggestions |-> suggestionsResult.value[1].data, preview |-> preview,
               previewStatus |-> IF preview # <<>> THEN preview[1].status ELSE "none" ]

\* the merged payload of a request whose suggestion call succeeded
MergedPayload(suggestionsResult, previewResult) ==
    LET preview       == IF previewResult.status = "fulfilled"
                         THEN previewResult.value[1] ELSE <<>>
        previewError  == IF previewResult.status = "fulfilled" THEN ""
                         ELSE IF previewResult.reason[1].message # ""
                         THEN previewResult.reason[1].message
                         ELSE "Failed to fetch preview metadata"
        previewStatus == IF previewResult.status = "fulfilled"
                         THEN (IF preview # <<>> THEN preview[1].status ELSE "no_data")
                         ELSE "error"
        payload       == [ suggestions |-> suggestionsResult.value[1].data,
                           preview |-> preview, previewStatus |-> previewStatus ]
    IN  IF previewError # ""
        THEN [ suggestions |-> payload.suggestions, preview |-> payload.preview,
               previewStatus |-> payload.previewStatus, previewError |-> previewError ]
        ELSE payload

\* the console.info line of the merge step, as the parts the template
\* interpolates: user, host, outcome and, after a failure, the message
PreviewObservation(context, url, payload) ==
    [ user    |-> context.identity,
      host    |-> url.hostname,
      outcome |-> IF payload.preview # <<>> THEN "preview_generated"
                  ELSE IF "previewError" \in DOMAIN payload THEN "preview_failed"
                  ELSE "preview_not_found",
      message |-> IF "previewError" \in DOMAIN payload THEN <<payload.previewError>>
                  ELSE <<>> ]

\* what the handler writes with console.info once the calls have settled
MergeLog(lines) ==
    IF suggestionsPromise.status = "rejected" THEN lines
    ELSE Append(lines, PreviewObservation(authContext, normalizedUrl,
                                          MergedPayload(suggestionsPromise, previewPromise)))

\* a handler that answers as soon as the suggestion call has settled and
\* merges the preview only when it happens to be there
SuggestMergeNoWait ==
    /\ pc = "awaiting"
    /\ req.route = "suggest"
    /\ Settled(suggestionsPromise)
    /\ res' = IF suggestionsPromise.status = "rejected"
              THEN UpstreamErrorAnswer(suggestionsPromise.reason[1])
              ELSE IF Settled(previewPromise)
              THEN Respond(200, MergedPayload(suggestionsPromise, previewPromise))
              ELSE Respond(200, [ suggestions |-> suggestionsPromise.value[1].data,
                                  preview |-> <<>>, previewStatus |-> "none" ])
    /\ logged' = IF Settled(previewPromise) THEN MergeLog(logged) ELSE logged
    /\ pc' = "done"
    /\ UNCHANGED <<previewResponse, previewHits, reached, probe, inflight, sharedDefaults>>
    /\ UNCHANGED <<req, normalizedUrl, authContext, outbound, suggestionsPromise,
                   previewPromise, proxyPromise>>

SuggestMerge ==
    /\ pc = "awaiting"
    /\ req.route = "suggest"
    /\ AllSettled
    /\ res' = IF suggestionsPromise.status = "rejected"
              THEN UpstreamErrorAnswer(suggestionsPromise.reason[1])
              ELSE Respond(200, MergedPayload(suggestionsPromise, previewPromise))
    /\ logged' = MergeLog(logged)
    /\ pc' = "done"
    /\ UNCHANGED <<previewResponse, previewHits, reached, probe, inflight, sharedDefaults>>
    /\ UNCHANGED <<req, normalizedUrl, authContext, outbound, suggestionsPromise,
                   previewPromise, proxyPromise>>

\* the proxy handler's credential step with the return after the 401 lost
V1AuthFallsThrough ==
    /\ pc = "received"
    /\ req.route = "v1"
    /\ authContext' = applyAuthContext(req.authorization, buildSearchParams(req.query))
    /\ res' = IF authContext'.threw THEN Respond(401, [ error |-> authContext'.error ])
              ELSE res
    /\ pc' = "authed"
    /\ UNCHANGED <<previewResponse, logged, previewHits, reached, probe, inflight, sharedDefaults>>
    /\ UNCHANGED <<req, normalizedUrl, outbound, suggestionsPromise, previewPromise,
                   proxyPromise>>

V1Auth ==
    /\ pc = "received"
    /\ req.route = "v1"
    /\ authContext' = applyAuthContext(req.authorization, buildSearchParams(req.query))
    /\ IF authContext'.threw
       THEN /\ res' = Respond(401, [ error |-> authContext'.error ])
            /\ pc' = "done"
       ELSE /\ pc' = "authed"
            /\ UNCHANGED res
    /\ UNCHANGED <<previewResponse, logged, previewHits, reached, probe, inflight, sharedDefaults>>
    /\ UNCHANGED <<req, normalizedUrl, outbound, suggestionsPromise, previewPromise,
                   proxyPromise>>

\* a dispatch that issues the upstream call a second time
V1DispatchTwice ==
    /\ pc = "authed"
    /\ req.route = "v1"
    /\ outbound' = outbound
                   \o <<ApiRequest(req.path, authContext.queryParams, authContext.requestConfig),
                        ApiRequest(req.path, authContext.queryParams, authContext.requestConfig)>>
    /\ proxyPromise' = Pending
    /\ pc' = "awaiting"
    /\ UNCHANGED <<previewResponse, logged, previewHits, reached, probe, inflight, sharedDefaults>>
    /\ UNCHANGED <<req, normalizedUrl, authContext, suggestionsPromise, previewPromise, res>>

V1Dispatch ==
    /\ pc = "authed"
    /\ req.route = "v1"
    /\ outbound' = Append(outbound, ApiRequest(req.path, authContext.queryParams,
                                               authContext.requestConfig))
    /\ proxyPromise' = Pending
    /\ pc' = "awaiting"
    /\ UNCHANGED <<previewResponse, logged, previewHits, reached, probe, inflight, sharedDefaults>>
    /\ UNCHANGED <<req, normalizedUrl, authContext, suggestionsPromise, previewPromise, res>>

ProxySettles ==
    /\ pc = "awaiting"
    /\ proxyPromise.status = "pending"
    /\ \/ \E a \in { [ status |-> 200, dataKind |-> "string", data |-> "<posts user=\"u\"/>" ],
                      [ status |-> 200, dataKind |-> "string", data |-> "<posts" ],
                      [ status |-> 200, dataKind |-> "object", data |-> "{posts:[]}" ],
                      [ status |-> 204, dataKind |-> "string", data |-> "" ] } :
             proxyPromise' = Fulfilled(a)
       \/ \E e \in UpstreamFailures : proxyPromise' = Rejected(e)
    /\ UNCHANGED <<previewResponse, logged, previewHits, reached, probe, inflight, sharedDefaults>>
    /\ UNCHANGED <<pc, req, normalizedUrl, authContext, outbound, suggestionsPromise,
                   previewPromise, res>>

\* xmlParser.parse(data): <<>> when it throws
XmlParse(data) == IF data = "<posts" THEN <<>> ELSE <<[ parsedFrom |-> data ]>>

\* a proxy handler without the branch for a status other than 200
V1AnswerStatusIgnored(request, settled) ==
    IF settled.status = "rejected" THEN UpstreamErrorAnswer(settled.reason[1])
    ELSE LET response == settled.value[1]
         IN  IF QueryGet(request.query, "format") = <<Json>>
                \/ response.dataKind = "object"
             THEN Respond(200, [ json |-> response.data ])
             ELSE IF XmlParse(response.data) = <<>>
             THEN Respond(500, [ error |-> "Failed to parse XML response" ])
             ELSE Respond(200, [ json |-> XmlParse(response.data)[1] ])

\* the proxy handler after its await
V1Answer(request, settled) ==
    IF settled.status = "rejected" THEN UpstreamErrorAnswer(settled.reason[1])
    ELSE LET response == settled.value[1]
         IN  IF response.status # 200
             THEN Respond(response.status, [ sent |-> response.data ])
             ELSE IF QueryGet(request.query, "format") = <<Json>>
                     \/ response.dataKind = "object"
             THEN Respond(200, [ json |-> response.data ])
             ELSE IF XmlParse(response.data) = <<>>
             THEN Respond(500, [ error |-> "Failed to parse XML response" ])
             ELSE Respond(200, [ json |-> XmlParse(response.data)[1] ])

\* a handler whose XML parse failure ends without a response
V1RespondSilentParseFailure ==
    /\ pc = "awaiting"
    /\ req.route = "v1"
    /\ Settled(proxyPromise)
    /\ res' = IF V1Answer(req, proxyPromise)[1].body = [ error |-> "Failed to parse XML response" ]
              THEN res ELSE V1Answer(req, proxyPromise)
    /\ pc' = "done"
    /\ UNCHANGED <<previewResponse, logged, previewHits, reached, probe, inflight, sharedDefaults>>
    /\ UNCHANGED <<req, normalizedUrl, authContext, outbound, suggestionsPromise,
                   previewPromise, proxyPromise>>

V1Respond ==
    /\ pc = "awaiting"
    /\ req.route = "v1"
    /\ Settled(proxyPromise)
    /\ res' = V1Answer(req, proxyPromise)
    /\ pc' = "done"
    /\ UNCHANGED <<previewResponse, logged, previewHits, reached, probe, inflight, sharedDefaults>>
    /\ UNCHANGED <<req, normalizedUrl, authContext, outbound, suggestionsPromise,
                   previewPromise, proxyPromise>>

Next ==
    \/ ReceiveSuggest
    \/ ReceiveV1
    \/ SuggestValidate
    \/ SuggestAuth
    \/ SuggestDispatch
    \/ SuggestionSettles
    \/ PreviewSettles
    \/ SuggestMerge
    \/ V1Auth
    \/ V1Dispatch
    \/ ProxySettles
    \/ V1Respond

Spec == Init /\ [][Next]_vars

(***************************************************************************)
(* One request followed to its response: a request of the proxy route or   *)
(* of the enrichment route (without url, with a public, a local and a      *)
(* non-http target), with and without credentials.  The handlers run to    *)
(* completion and every outbound call settles, so a step that can be taken *)
(* is taken.                                                               *)
(***************************************************************************)
LiveReceive ==
    /\ pc = "idle"
    /\ \E c \in { [ scheme |-> "none", payload |-> <<>> ],
                  [ scheme |-> "Basic", payload |-> <<"u", ":", "p">> ] } :
       \E r \in { <<"v1", <<>> >>, <<"suggest", <<>> >>, <<"suggest", <<UrlExample>> >>,
                  \* "http://localhost/"
                  <<"suggest", << <<"h", "t", "t", "p", ":", "/", "/", "l", "o", "c", "a", "l",
                                   "h", "o", "s", "t", "/">> >> >>,
                  <<"suggest", <<UrlFtp>> >> } :
          /\ req' = [ route |-> r[1],
                      path |-> IF r[1] = "suggest" THEN "/posts/suggest-with-preview"
                               ELSE "/v1/posts/all",
                      credential |-> c, authorization |-> AuthorizationOf(c),
                      query |-> IF r[2] = <<>> THEN <<>>
                                ELSE <<[ key |-> "url", values |-> r[2] ]>> ]
          /\ previewHits' = IF r[1] = "suggest"
                            THEN previewRateLimiter(previewHits, AuthorizationOf(c)).store
                            ELSE previewHits
          /\ reached' = IF r[1] = "suggest" THEN Reach(reached, AuthorizationOf(c))
                        ELSE reached
    /\ pc' = "received"
    /\ UNCHANGED <<previewResponse, logged, probe, inflight, sharedDefaults>>
    /\ UNCHANGED <<normalizedUrl, authContext, outbound, suggestionsPromise,
                   previewPromise, proxyPromise, res>>

LiveNext ==
    \/ LiveReceive
    \/ SuggestValidate
    \/ SuggestAuth
    \/ SuggestDispatch
    \/ SuggestionSettles
    \/ PreviewSettles
    \/ SuggestMerge
    \/ V1Auth
    \/ V1Dispatch
    \/ ProxySettles
    \/ V1Respond

LiveSpec == Init /\ [][LiveNext]_vars /\ WF_vars(LiveNext)

(***************************************************************************)
(* Several requests in flight.  A handler runs without interruption up to  *)
(* its await, so the steps of a request are its arrival, the synchronous   *)
(* part that ends by starting the upstream calls, and the part after the   *)
(* await.  The steps of different requests interleave freely.  The         *)
(* module-level objects are read where the code reads them.                *)
(***************************************************************************)
ConcurrentReceive ==
    \E i \in 1..MaxInflight :
       /\ inflight[i].pc = "idle"
       /\ \E c \in { [ scheme |-> "Basic", payload |-> <<"u", ":", "p">> ],
                     [ scheme |-> "Bearer", payload |-> <<"p", ":", "u">> ],
                     [ scheme |-> "none", payload |-> <<>> ] } :
          \E r \in { [ route |-> "v1", path |-> "/v1/posts/all",
                       query |-> <<[ key |-> "format", values |-> <<Json>> ]>> ],
                     [ route |-> "suggest", path |-> "/posts/suggest-with-preview",
                       query |-> <<[ key |-> "url", values |-> <<UrlExample>> ]>> ] } :
             inflight' = [ inflight EXCEPT ![i] =
                             [ @ EXCEPT !.pc = "received",
                                        !.req = <<[ route |-> r.route, path |-> r.path,
                                                    credential |-> c,
                                                    authorization |-> AuthorizationOf(c),
                                                    query |-> r.query ]>> ] ]
       /\ UNCHANGED <<pc, req, normalizedUrl, authContext, outbound, suggestionsPromise,
                      previewPromise, previewResponse, proxyPromise, res, logged,
                      previewHits, reached, probe, sharedDefaults>>

\* a credential step that writes the Basic credentials into the shared
\* apiRequestDefaults and hands that object out as the request's config
ConcurrentHandleSharedConfig ==
    \E i \in 1..MaxInflight :
       /\ inflight[i].pc = "received"
       /\ \E request \in { inflight[i].req[1] } :
          \E parsed \in { IF request.route = "suggest" THEN ParseURL(TargetOf(request.query))
                          ELSE <<>> } :
          \E answer \in { IF request.route = "suggest"
                          THEN ValidateURL(TargetOf(request.query), parsed) ELSE <<>> } :
          \E context \in { applyAuthContext(request.authorization,
                               IF request.route = "suggest" THEN SuggestParams(parsed[1])
                               ELSE buildSearchParams(request.query)) } :
             /\ sharedDefaults' = IF answer = <<>> /\ ~context.threw
                                     /\ context.requestConfig.auth # <<>>
                                  THEN [ sharedDefaults EXCEPT
                                           !.api.auth = context.requestConfig.auth ]
                                  ELSE sharedDefaults
             /\ inflight' = [ inflight EXCEPT ![i] =
                  IF answer # <<>>
                  THEN [ @ EXCEPT !.pc = "done", !.res = answer ]
                  ELSE IF context.threw
                  THEN [ @ EXCEPT !.pc = "done", !.authContext = <<context>>,
                                  !.res = Respond(401, [ error |-> context.error ]) ]
                  ELSE [ @ EXCEPT
                           !.pc = "awaiting",
                           !.authContext = <<context>>,
                           !.outbound =
                               IF request.route = "suggest"
                               THEN <<ApiRequest("/v1/posts/suggest", context.queryParams,
                                                 sharedDefaults'.api),
                                      [ PreviewRequest(parsed[1]) EXCEPT
                                          !.config = sharedDefaults'.preview ]>>
                               ELSE <<ApiRequest(request.path, context.queryParams,
                                                 sharedDefaults'.api)>> ] ]
       /\ UNCHANGED <<pc, req, normalizedUrl, authContext, outbound, suggestionsPromise,
                      previewPromise, previewResponse, proxyPromise, res, logged,
                      previewHits, reached, probe>>

\* the handler up to its await: validation (enrichment route), credential
\* resolution on the request's own parameters, and the upstream calls.  The
\* request's config is a copy of the shared apiRequestDefaults as it is at
\* that moment, with auth set for Basic; the preview call is given the
\* shared previewRequestConfig.  Neither object is written.
ConcurrentHandle ==
    \E i \in 1..MaxInflight :
       /\ inflight[i].pc = "received"
       /\ \E request \in { inflight[i].req[1] } :
          \E parsed \in { IF request.route = "suggest" THEN ParseURL(TargetOf(request.query))
                          ELSE <<>> } :
          \E answer \in { IF request.route = "suggest"
                          THEN ValidateURL(TargetOf(request.query), parsed) ELSE <<>> } :
          \E context \in { applyAuthContext(request.authorization,
                               IF request.route = "suggest" THEN SuggestParams(parsed[1])
                               ELSE buildSearchParams(request.query)) } :
             inflight' = [ inflight EXCEPT ![i] =
                  IF answer # <<>>
                  THEN [ @ EXCEPT !.pc = "done", !.res = answer ]
                  ELSE IF context.threw
                  THEN [ @ EXCEPT !.pc = "done", !.authContext = <<context>>,
                                  !.res = Respond(401, [ error |-> context.error ]) ]
                  ELSE [ @ EXCEPT
                           !.pc = "awaiting",
                           !.authContext = <<context>>,
                           !.outbound =
                               IF request.route = "suggest"
                               THEN <<ApiRequest("/v1/posts/suggest", context.queryParams,
                                          IF context.requestConfig.auth # <<>>
                                          THEN [ sharedDefaults.api EXCEPT
                                                   !.auth = context.requestConfig.auth ]
                                          ELSE sharedDefaults.api),
                                      [ PreviewRequest(parsed[1]) EXCEPT
                                          !.config = sharedDefaults.preview ]>>
                               ELSE <<ApiRequest(request.path, context.queryParams,
                                          IF context.requestConfig.auth # <<>>
                                          THEN [ sharedDefaults.api EXCEPT
                                                   !.auth = context.requestConfig.auth ]
                                          ELSE sharedDefaults.api)>> ] ]
       /\ UNCHANGED <<pc, req, normalizedUrl, authContext, outbound, suggestionsPromise,
                      previewPromise, previewResponse, proxyPromise, res, logged,
                      previewHits, reached, probe, sharedDefaults>>

\* the upstream calls of one request have settled and its handler answers
ConcurrentSettle ==
    \E i \in 1..MaxInflight :
       /\ inflight[i].pc = "awaiting"
       /\ \E settled \in { Fulfilled([ status |-> 200, dataKind |-> "object",
                                       data |-> "popular+recommended" ]),
                           Rejected(AxiosError("timeout of 30000ms exceeded",
                                               "ECONNABORTED", <<>>)) } :
          \E preview \in { Rejected([ message |-> "timeout of 5000ms exceeded" ]) } :
             /\ inflight' = [ inflight EXCEPT ![i] =
                  [ @ EXCEPT
                      !.pc = "done",
                      !.res = IF inflight[i].req[1].route = "v1"
                              THEN V1Answer(inflight[i].req[1], settled)
                              ELSE IF settled.status = "rejected"
                              THEN UpstreamErrorAnswer(settled.reason[1])
                              ELSE Respond(200, MergedPayload(settled, preview)) ] ]
             /\ logged' = IF inflight[i].req[1].route = "suggest"
                             /\ settled.status = "fulfilled"
                          THEN Append(logged,
                                   PreviewObservation(inflight[i].authContext[1],
                                       ParseURL(TargetOf(inflight[i].req[1].query))[1],
                                       MergedPayload(settled, preview)))
                          ELSE logged
       /\ UNCHANGED <<pc, req, normalizedUrl, authContext, outbound, suggestionsPromise,
                      previewPromise, previewResponse, proxyPromise, res,
                      previewHits, reached, probe, sharedDefaults>>

ConcurrentSpec ==
    Init /\ [][ConcurrentReceive \/ ConcurrentHandle \/ ConcurrentSettle]_vars

(***************************************************************************)
(* isPrivateHostname examined on its own: the hostnames it is given.       *)
(***************************************************************************)
\* "::1"
HostV6Loopback ==
    <<":", ":", "1">>

\* a.b.0.1 with the octets around the edges of the private ranges, names,
\* and IPv6 literals
Hostnames ==
    { FormatDecimal(a) \o <<".">> \o FormatDecimal(b) \o <<".", "0", ".", "1">> :
        a \in {1, 9, 10, 11, 93, 126, 127, 128, 169, 172, 192, 255},
        b \in {0, 15, 16, 31, 32, 168, 184, 254} }
    \cup {
      localhost,
      \* "LOCALHOST"
      <<"L", "O", "C", "A", "L", "H", "O", "S", "T">>,
      \* "dev.localhost"
      <<"d", "e", "v", ".", "l", "o", "c", "a", "l", "h", "o", "s", "t">>,
      \* "notlocalhost"
      <<"n", "o", "t", "l", "o", "c", "a", "l", "h", "o", "s", "t">>,
      \* "localhost.example.com"
      <<"l", "o", "c", "a", "l", "h", "o", "s", "t", ".", "e", "x", "a", "m", "p", "l", "e", ".", "c", "o", "m">>,
      \* "example.com"
      <<"e", "x", "a", "m", "p", "l", "e", ".", "c", "o", "m">>,
      HostV6Loopback,
      \* "0:0:0:0:0:0:0:1"
      <<"0", ":", "0", ":", "0", ":", "0", ":", "0", ":", "0", ":", "0", ":", "1">>,
      \* "fc00::1"
      <<"f", "c", "0", "0", ":", ":", "1">>,
      \* "fd12:3456::1"
      <<"f", "d", "1", "2", ":", "3", "4", "5", "6", ":", ":", "1">>,
      \* "FD00::1"
      <<"F", "D", "0", "0", ":", ":", "1">>,
      \* "fe80::1"
      <<"f", "e", "8", "0", ":", ":", "1">>,
      \* "fc::1"
      <<"f", "c", ":", ":", "1">>,
      \* "fd:1::2"
      <<"f", "d", ":", "1", ":", ":", "2">>,
      \* "2001:db8::1"
      <<"2", "0", "0", "1", ":", "d", "b", "8", ":", ":", "1">>,
      \* "[::1]"
      <<"[", ":", ":", "1", "]">>,
      \* "::"
      <<":", ":">>,
      \* "2130706433"
      <<"2", "1", "3", "0", "7", "0", "6", "4", "3", "3">>,
      \* "010.0.0.1"
      <<"0", "1", "0", ".", "0", ".", "0", ".", "1">> }

\* the handler's variables, which an examination of a function leaves alone
handlerVars == <<pc, req, normalizedUrl, authContext, outbound, suggestionsPromise,
                 previewPromise, previewResponse, proxyPromise, res, logged, previewHits,
                 reached, inflight, sharedDefaults>>

\* the server has started and no request has arrived
ServerStarted ==
    /\ pc = "idle"
    /\ req = [ route |-> "", path |-> "", credential |-> [ scheme |-> "none", payload |-> <<>> ],
               authorization |-> <<>>, query |-> <<>> ]
    /\ normalizedUrl = NoUrl
    /\ authContext = NoAuth
    /\ outbound = <<>>
    /\ suggestionsPromise = NoPromise
    /\ previewPromise = NoPromise
    /\ previewResponse = <<>>
    /\ proxyPromise = NoPromise
    /\ res = <<>>
    /\ logged = <<>>
    /\ previewHits = EmptyStore
    /\ reached = EmptyStore
    /\ inflight = [ i \in 1..MaxInflight |->
                      [ pc |-> "idle", req |-> <<>>, authContext |-> <<>>,
                        outbound |-> <<>>, res |-> <<>> ] ]
    /\ sharedDefaults = [ api |-> apiRequestDefaults, preview |-> previewRequestConfig ]

HostInit ==
    /\ ServerStarted
    /\ probe \in { [ fn |-> "isPrivateHostname", input |-> h, output |-> <<>> ] :
                      h \in Hostnames }

\* isPrivateHostname is applied to the hostname
ClassifyHost ==
    /\ probe.fn = "isPrivateHostname"
    /\ probe.output = <<>>
    /\ probe' = [ probe EXCEPT !.output = <<isPrivateHostname(probe.input)>> ]
    /\ UNCHANGED handlerVars

HostSpec == HostInit /\ [][ClassifyHost]_vars

(***************************************************************************)
(* The preview limiter examined over the requests of one client and more:  *)
(* what the handler does with a request it is handed is Spec's subject, so *)
(* here a request ends where the limiter hands it on or denies it.         *)
(***************************************************************************)
\* the clients: one token in two spellings of its header
LimiterClients ==
    { [ scheme |-> "Bearer", payload |-> <<"u", ":", "p">> ],
      [ scheme |-> "bearer", payload |-> <<"u", ":", "p">> ] }

SuggestRequestOf(c) ==
    [ route |-> "suggest", path |-> "/posts/suggest-with-preview", credential |-> c,
      authorization |-> AuthorizationOf(c),
      query |-> <<[ key |-> "url", values |-> <<UrlExample>> ]>> ]

\* the limiter calls next(): the request goes on to the handler
LimiterPasses ==
    /\ pc = "idle"
    /\ \E c \in LimiterClients :
       \E limited \in { previewRateLimiter(previewHits, AuthorizationOf(c)) } :
          /\ limited.passed
          /\ previewHits' = limited.store
          /\ reached' = Reach(reached, AuthorizationOf(c))
          /\ req' = SuggestRequestOf(c)
          /\ res' = <<>>
    /\ UNCHANGED <<pc, normalizedUrl, authContext, outbound, suggestionsPromise,
                   previewPromise, previewResponse, proxyPromise, logged, probe, inflight, sharedDefaults>>

\* the limiter answers 429 itself and the handler is not called
LimiterDenies ==
    /\ pc = "idle"
    /\ \E c \in LimiterClients :
       \E limited \in { previewRateLimiter(previewHits, AuthorizationOf(c)) } :
          /\ ~limited.passed
          /\ previewHits' = limited.store
          /\ req' = SuggestRequestOf(c)
          /\ res' = TooManyPreviewRequests(limited.headers)
    /\ UNCHANGED <<pc, normalizedUrl, authContext, outbound, suggestionsPromise,
                   previewPromise, previewResponse, proxyPromise, logged, reached, probe, inflight, sharedDefaults>>

\* windowMs has passed: the store starts a new window
WindowExpires ==
    /\ previewHits # EmptyStore
    /\ previewHits' = EmptyStore
    /\ reached' = EmptyStore
    /\ UNCHANGED <<pc, req, normalizedUrl, authContext, outbound, suggestionsPromise,
                   previewPromise, previewResponse, proxyPromise, res, logged, probe, inflight, sharedDefaults>>

LimiterSpec == Init /\ [][LimiterPasses \/ LimiterDenies \/ WindowExpires]_vars

(***************************************************************************)
(* The metadata extractor examined on documents of a few elements, some    *)
(* of them repeating a source with a blank first occurrence.               *)
(***************************************************************************)
MaxElements == 2

\* the elements the documents are made of
DocumentElements ==
    { MetaTag("name", "twitter:title", BlankText),
      MetaTag("name", "twitter:title", PageTitle),
      [ MetaTag("property", "og:title", <<>>) EXCEPT !.value = OtherTitle ],
      TitleTag(OtherTitle),
      MetaTag("name", "twitter:description", <<>>),
      MetaTag("name", "description", PageDescription),
      MetaTag("name", "twitter:image:src", PageImage),
      MetaTag("property", "og:image", RelativeImage),
      MetaTag("property", "og:site_name", SiteNameText),
      MetaTag("name", "application-name", <<"E", "x", "a", "m", "p", "l", "e", " ", "A", "p", "p">>),
      MetaTag("name", "twitter:site", BlankText),
      MetaTag("name", "twitter:site", SiteHandleText),
      MetaTag("name", "twitter:creator", <<"@", "a", "u", "t", "h", "o", "r">>),
      MetaTag("name", "theme-color", <<"#", "0", "a", "8", "4", "f", "f">>),
      MetaTag("name", "msapplication-TileColor", <<"#", "d", "a", "5", "3", "2", "c">>) }

ExtractInit ==
    /\ ServerStarted
    /\ probe \in { [ fn |-> "extractPreviewMetadata", input |-> html, output |-> <<>> ] :
                      html \in SeqsUpTo(DocumentElements, MaxElements) }

\* extractPreviewMetadata is applied to the document, fetched from and
\* requested as UrlExample
ExtractDocument ==
    /\ probe.fn = "extractPreviewMetadata"
    /\ probe.output = <<>>
    /\ probe' = [ probe EXCEPT
                    !.output = <<extractPreviewMetadata(probe.input, UrlExample, UrlExample)>> ]
    /\ UNCHANGED handlerVars

ExtractSpec == ExtractInit /\ [][ExtractDocument]_vars

(***************************************************************************)
(* The extractor's choice of the record's url, examined on documents that  *)
(* give the url, an image and an icon in resolvable and unresolvable       *)
(* forms, fetched with and without a redirect.                             *)
(***************************************************************************)
MaxUrlElements == 2

\* the elements that follow the title in the documents
UrlElements ==
    { \* "/canonical"
      LinkTag("canonical", "", <<"/", "c", "a", "n", "o", "n", "i", "c", "a", "l">>),
      \* "http://"
      LinkTag("canonical", "", <<"h", "t", "t", "p", ":", "/", "/">>),
      \* "https://example.org/a"
      MetaTag("property", "og:url", <<"h", "t", "t", "p", "s", ":", "/", "/", "e", "x", "a",
                                      "m", "p", "l", "e", ".", "o", "r", "g", "/", "a">>),
      \* "http://"
      MetaTag("property", "og:url", <<"h", "t", "t", "p", ":", "/", "/">>),
      \* "//example.net/b"
      MetaTag("name", "twitter:url", <<"/", "/", "e", "x", "a", "m", "p", "l", "e", ".", "n",
                                       "e", "t", "/", "b">>),
      MetaTag("property", "og:image", RelativeImage),
      \* "http://"
      MetaTag("name", "twitter:image", <<"h", "t", "t", "p", ":", "/", "/">>),
      \* "/favicon.ico"
      LinkTag("icon", "", <<"/", "f", "a", "v", "i", "c", "o", "n", ".", "i", "c", "o">>) }

\* the document, the URL the fetch ended at and the URL requested
ChooseUrlInit ==
    /\ ServerStarted
    /\ probe \in { [ fn |-> "canonicalUrl",
                      input |-> [ html |-> <<MetaTag("name", "twitter:title", PageTitle)>> \o html,
                                  finalUrl |-> f, originalUrl |-> UrlExample ],
                      output |-> <<>> ] :
                      html \in SeqsUpTo(UrlElements, MaxUrlElements),
                      f \in {UrlExample, RedirectedUrl} }

\* extractPreviewMetadata is applied to the document and the two URLs
ChooseUrl ==
    /\ probe.fn = "canonicalUrl"
    /\ probe.output = <<>>
    /\ probe' = [ probe EXCEPT
                    !.output = <<extractPreviewMetadata(probe.input.html, probe.input.finalUrl,
                                                        probe.input.originalUrl)>> ]
    /\ UNCHANGED handlerVars

UrlChoiceSpec == ChooseUrlInit /\ [][ChooseUrl]_vars

(***************************************************************************)
(* Properties.                                                             *)
(***************************************************************************)
Enrichment == req.route = "suggest"

\* applyAuthContext has run for the request
AuthRan == authContext # NoAuth

ApiRequests == { i \in DOMAIN outbound : outbound[i].kind = "api" }

\* the client's payload split at its first ":"
PayloadUser(p) == SplitFirst(p, ":")

PayloadSecret(p) == Slice(p, IndexOf(p, ":") + 1, Len(p))

SentBasic == req.credential.scheme \in {"Basic", "BASIC"}

SentBearer == req.credential.scheme \in {"Bearer", "bearer"}

\* a host that is loopback, link-local or private, as new URL(...).hostname
\* writes it: a dotted IPv4 address, a bracketed IPv6 address or a name
PrivateAddress(hostname) ==
    LET inner  == SubSeq(hostname, 2, Len(hostname) - 1)
        parts  == Split(hostname, ".")
        first  == ParseDecimal(parts[1])
        second == ParseDecimal(parts[2])
    IN  \/ hostname = localhost
        \/ EndsWith(hostname, <<".">> \o localhost)
        \/ /\ IsIPv4(hostname)
           /\ \/ first \in {10, 127}
              \/ first = 172 /\ second \in 16..31
              \/ first = 192 /\ second = 168
              \/ first = 169 /\ second = 254
        \/ /\ hostname # <<>> /\ hostname[1] = "[" /\ IsIPv6(inner)
           /\ \/ inner = <<":", ":", "1">>
              \/ StartsWith(inner, <<"f", "c">>)
              \/ StartsWith(inner, <<"f", "d">>)

\* the request's target parses to a private host
PrivateTarget ==
    /\ TargetOf(req.query) # <<>>
    /\ ParseURL(TargetOf(req.query)) # <<>>
    /\ ParseURL(TargetOf(req.query))[1].protocol \in {HttpProtocol, HttpsProtocol}
    /\ PrivateAddress(ParseURL(TargetOf(req.query))[1].hostname)

\* C1: a request to the enrichment route whose url parses to a loopback,
\* link-local or private host (an IPv6 literal included) ends with 400 'URL
\* host is not reachable from the proxy' and issues no outbound request.
C1_PrivateTargetRefused ==
    (Enrichment /\ pc \notin {"idle", "received"} /\ PrivateTarget)
        => /\ res = Respond(400, [ error |-> "URL host is not reachable from the proxy" ])
           /\ outbound = <<>>

\* C2: the outbound query of every upstream call holds no auth_token taken
\* from the inbound query: none with Basic credentials, and with Bearer
\* credentials exactly the one token of the Authorization header.
C2_LegacyTokenNotForwarded ==
    \A i \in ApiRequests :
        ParamsGetAll(outbound[i].params, "auth_token")
            = IF SentBearer THEN <<req.credential.payload>> ELSE <<>>

\* an upstream call went out for a request that carried a legacy auth_token
C2_Witness ==
    /\ ApiRequests # {}
    /\ QueryGet(req.query, "auth_token") # <<>>
    /\ SentBasic

\* C3: when the suggestion call succeeded and the preview fetch failed, the
\* answer is 200 with the upstream suggestions unchanged, previewStatus
\* 'error' and a non-empty previewError text.
C3_PreviewFailureDowngraded ==
    (Enrichment /\ pc = "done" /\ suggestionsPromise.status = "fulfilled"
        /\ previewPromise.status = "rejected")
        => /\ res # <<>>
           /\ res[1].status = 200
           /\ res[1].body.suggestions = suggestionsPromise.value[1].data
           /\ res[1].body.previewStatus = "error"
           /\ "previewError" \in DOMAIN res[1].body
           /\ res[1].body.previewError # ""

\* answered after a preview failure whose error carries no message
C3_Witness ==
    /\ Enrichment /\ pc = "done"
    /\ suggestionsPromise.status = "fulfilled"
    /\ previewPromise.status = "rejected"
    /\ previewPromise.reason[1].message = ""

\* C4: when the suggestion call failed the request fails whatever the
\* preview gave: the upstream's status when it answered, 504 on a timeout,
\* 500 otherwise, and a body with nothing but the error.
C4_SuggestionFailureFatal ==
    (Enrichment /\ pc = "done" /\ suggestionsPromise.status = "rejected")
        => /\ res # <<>>
           /\ res[1].status =
                 IF suggestionsPromise.reason[1].response # <<>>
                 THEN suggestionsPromise.reason[1].response[1].status
                 ELSE IF suggestionsPromise.reason[1].code = "ECONNABORTED" THEN 504
                 ELSE 500
           /\ DOMAIN res[1].body = {"error"}

\* the suggestion call timed out although the preview produced a record
C4_Witness ==
    /\ Enrichment /\ pc = "done"
    /\ suggestionsPromise.status = "rejected"
    /\ suggestionsPromise.reason[1].code = "ECONNABORTED"
    /\ previewPromise.status = "fulfilled"
    /\ previewPromise.value[1] # <<>>

\* C5: both calls are started before the handler awaits, no answer is sent
\* while it awaits, and the answer follows the settlement of both calls,
\* also when the suggestion call failed first; the preview request, once
\* issued, stays issued.
C5_JoinNotRace ==
    Enrichment =>
        /\ pc = "awaiting" => /\ suggestionsPromise.status # "none"
                              /\ previewPromise.status # "none"
                              /\ res = <<>>
        /\ (pc = "done" /\ suggestionsPromise.status # "none")
              => Settled(suggestionsPromise) /\ Settled(previewPromise)
        /\ previewPromise.status # "none"
              => \E i \in DOMAIN outbound : outbound[i].kind = "preview"

\* the suggestion call has failed, the preview fetch is still in flight and
\* nothing was answered
C5_Witness ==
    /\ Enrichment /\ pc = "awaiting"
    /\ suggestionsPromise.status = "rejected"
    /\ previewPromise.status = "pending"
    /\ res = <<>>

\* C6 as stated: once the suggestion call has settled the answer can be
\* sent, however long the preview fetch takes.
C6_ResponseIndependentOfPreview ==
    (Enrichment /\ pc = "awaiting" /\ Settled(suggestionsPromise)) => ENABLED SuggestMerge

\* C6 amended: a failing preview never fails the answer of a successful
\* suggestion call, but a pending preview fetch holds the answer back: while
\* it is in flight nothing is answered and the merge step cannot run.
C6_ResponseWaitsForPreview ==
    Enrichment =>
        /\ previewPromise.status = "pending" => res = <<>> /\ ~ENABLED SuggestMerge
        /\ (pc = "done" /\ suggestionsPromise.status = "fulfilled")
              => res[1].status = 200 /\ "suggestions" \in DOMAIN res[1].body

\* the suggestion call has succeeded and the answer is held back by the
\* preview fetch
C6_Witness ==
    /\ Enrichment /\ pc = "awaiting"
    /\ suggestionsPromise.status = "fulfilled"
    /\ previewPromise.status = "pending"

\* C7: a Basic header of base64(user:pass) with both parts non-empty
\* resolves to exactly that user and that pass (split at the first ":"),
\* attached as Basic auth to the upstream call; an empty user, an empty pass
\* or no ":" fails with 'Invalid Basic authorization header'.
C7_BasicResolution ==
    (AuthRan /\ SentBasic /\ req.credential.payload # <<>>) =>
        LET p    == req.credential.payload
            user == PayloadUser(p)
            pass == PayloadSecret(p)
        IN  IF IndexOf(p, ":") >= 1 /\ pass # <<>>
            THEN /\ ~authContext.threw
                 /\ authContext.requestConfig.auth
                        = <<[ username |-> user, password |-> pass ]>>
                 /\ \A i \in ApiRequests :
                        outbound[i].config.auth = <<[ username |-> user, password |-> pass ]>>
            ELSE /\ authContext.threw
                 /\ authContext.error = "Invalid Basic authorization header"

\* an upstream call carries a Basic password that contains ":"
C7_Witness ==
    /\ SentBasic
    /\ \E i \in ApiRequests :
          /\ outbound[i].config.auth # <<>>
          /\ ":" \in Range(outbound[i].config.auth[1].password)

\* C8: a Bearer payload with an empty identity or an empty secret (':tok',
\* 'alice:') fails with 'Invalid Bearer authorization header' and is not
\* forwarded upstream.
C8_BearerEmptyHalfRejected ==
    (AuthRan /\ SentBearer /\ Includes(req.credential.payload, <<":">>)
        /\ (PayloadUser(req.credential.payload) = <<>>
            \/ PayloadSecret(req.credential.payload) = <<>>))
        => /\ authContext.threw
           /\ authContext.error = "Invalid Bearer authorization header"
           /\ outbound = <<>>

\* C9: a Bearer payload without ":" fails with 'Invalid Bearer
\* authorization header'; a payload identity:secret with both parts
\* non-empty resolves, is the one auth_token parameter of the upstream call,
\* unchanged, and gives the text before the first ":" as identity.
C9_BearerResolution ==
    (AuthRan /\ SentBearer /\ req.credential.payload # <<>>) =>
        LET p == req.credential.payload
        IN  /\ ~Includes(p, <<":">>)
                => /\ authContext.threw
                   /\ authContext.error = "Invalid Bearer authorization header"
            /\ (Includes(p, <<":">>) /\ PayloadUser(p) # <<>> /\ PayloadSecret(p) # <<>>)
                => /\ ~authContext.threw
                   /\ authContext.identity = PayloadUser(p)
                   /\ authContext.requestConfig.auth = <<>>
                   /\ ParamsGetAll(authContext.queryParams, "auth_token") = <<p>>
                   /\ \A i \in ApiRequests :
                         ParamsGetAll(outbound[i].params, "auth_token") = <<p>>

\* an upstream call carries the token of a header written "bearer", with
\* space around the token, for a request that also had a legacy auth_token
C9_Witness ==
    /\ req.credential.scheme = "bearer"
    /\ QueryGet(req.query, "auth_token") # <<>>
    /\ \E i \in ApiRequests :
          ParamsGetAll(outbound[i].params, "auth_token") = <<req.credential.payload>>

\* C10: when credential resolution fails the request ends at once with 401
\* and one of the three fixed messages, and no outbound request is issued.
C10_AuthFailureTerminates ==
    (AuthRan /\ authContext.threw)
        => /\ pc = "done"
           /\ res # <<>>
           /\ res[1].status = 401
           /\ res[1].body \in { [ error |-> "Authorization header required" ],
                                [ error |-> "Invalid Basic authorization header" ],
                                [ error |-> "Invalid Bearer authorization header" ] }
           /\ outbound = <<>>
           /\ suggestionsPromise.status = "none"
           /\ previewPromise.status = "none"
           /\ proxyPromise.status = "none"

\* the enrichment route refused a request with a valid target for its
\* credentials
C10_Witness ==
    /\ Enrichment /\ pc = "done"
    /\ normalizedUrl # NoUrl
    /\ authContext.threw
    /\ res[1].status = 401

\* C11: every upstream call carries exactly one credential representation:
\* Basic auth of a Basic header and then no auth_token parameter, or exactly
\* one auth_token parameter holding the token of a Bearer header and then no
\* Basic auth; never both, never neither.
C11_OneCredentialRepresentation ==
    \A i \in ApiRequests :
        LET basic  == outbound[i].config.auth # <<>>
            tokens == ParamsGetAll(outbound[i].params, "auth_token")
        IN  /\ basic => (tokens = <<>> /\ SentBasic)
            /\ ~basic => (tokens = <<TokenOf(req.authorization)>> /\ SentBearer)

\* the enrichment route called Pinboard with the token of a Bearer header
\* as its only credential
C11_Witness ==
    /\ Enrichment /\ SentBearer
    /\ \E i \in ApiRequests :
          /\ outbound[i].config.auth = <<>>
          /\ Len(ParamsGetAll(outbound[i].params, "auth_token")) = 1

\* the number a text of hexadecimal digits writes
RECURSIVE ParseHex(_)
ParseHex(s) ==
    IF s = <<>> THEN 0
    ELSE 16 * ParseHex(SubSeq(s, 1, Len(s) - 1))
         + (IF IsDigit(s[Len(s)]) THEN Ord(s[Len(s)]) - 48
            ELSE Ord(ToLowerChar(s[Len(s)])) - 87)

\* the first 16-bit group of an IPv6 address
FirstGroup(address) == ParseHex(SplitFirst(address, ":"))

\* the classification the ranges give: the IPv4 ranges by their octets, the
\* IPv6 loopback '::1' and fc00::/7 by the first seven bits of the address,
\* the names localhost and *.localhost
PrivateByRange(hostname) ==
    LET parts  == Split(hostname, ".")
        first  == ParseDecimal(parts[1])
        second == ParseDecimal(parts[2])
    IN  \/ ToLowerCase(hostname) = localhost
        \/ EndsWith(ToLowerCase(hostname), <<".">> \o localhost)
        \/ /\ IsIPv4(hostname)
           /\ \/ first \in {10, 127}
              \/ first = 172 /\ second \in 16..31
              \/ first = 192 /\ second = 168
              \/ first = 169 /\ second = 254
        \/ /\ IsIPv6(hostname)
           /\ \/ hostname = HostV6Loopback
              \/ FirstGroup(hostname) \div 512 = 126

\* C12: isPrivateHostname(h) is true exactly for the IPv4 literals of
\* 10/8, 127/8, 172.16/12, 192.168/16 and 169.254/16, the IPv6 literals
\* '::1' and those of fc00::/7, and the names localhost and *.localhost;
\* every other IP literal and every other name is public.
C12_PrivateExactlyTheRanges ==
    (probe.fn = "isPrivateHostname" /\ probe.output # <<>>)
        => probe.output[1] = PrivateByRange(probe.input)

\* the first value of the request's url parameter, <<>> if there is none
FirstUrlValue ==
    IF QueryGet(req.query, "url") = <<>> THEN <<>> ELSE QueryGet(req.query, "url")[1]

\* C13: the enrichment route validates exactly one target, the first value
\* of the url parameter: when that is missing or empty, does not parse as an
\* absolute URL or has a scheme other than http/https, the request ends with
\* 400 and no outbound request; a target that passed is that first value.
C13_InvalidTargetRefused ==
    (Enrichment /\ pc \notin {"idle", "received"}) =>
        LET parsed == IF FirstUrlValue = <<>> THEN <<>> ELSE ParseURL(FirstUrlValue)
            bad    == \/ parsed = <<>>
                      \/ parsed[1].protocol \notin {HttpProtocol, HttpsProtocol}
        IN  /\ bad => /\ pc = "done"
                      /\ res # <<>>
                      /\ res[1].status = 400
                      /\ outbound = <<>>
            /\ normalizedUrl # NoUrl => (~bad /\ normalizedUrl = parsed[1])
            /\ \A i \in DOMAIN outbound :
                   outbound[i].kind = "preview" => outbound[i].url = parsed[1].href

\* a request that gave url twice, an ftp address first and a valid target
\* second, was refused
C13_Witness ==
    /\ Enrichment /\ pc = "done"
    /\ QueryGet(req.query, "url") = <<UrlFtp, UrlExample>>
    /\ res = Respond(400, [ error |-> "URL must use http or https" ])

\* an EnrichmentResult payload was emitted
PayloadEmitted ==
    /\ Enrichment /\ pc = "done"
    /\ res # <<>>
    /\ "suggestions" \in DOMAIN res[1].body

\* C14: in every emitted EnrichmentResult payload the previewError member
\* is present if and only if previewStatus is 'error'.
C14_PreviewErrorIffError ==
    PayloadEmitted =>
        ("previewError" \in DOMAIN res[1].body <=> res[1].body.previewStatus = "error")

\* a payload was emitted after a preview response that is not HTML
C14_Witness ==
    /\ PayloadEmitted
    /\ res[1].body.previewStatus = "error"
    /\ "previewError" \in DOMAIN res[1].body
    /\ res[1].body.previewError = "Preview response is not HTML"

\* the document the preview fetch returned has an element that one of the
\* title, description or image selectors selects
HasPreviewTags(html) ==
    \E i \in DOMAIN html :
        \E k \in DOMAIN (TitleSelectors \o DescriptionSelectors \o ImageSelectors) :
            Matches(html[i], (TitleSelectors \o DescriptionSelectors \o ImageSelectors)[k])

\* C15: extraction on a document without title, description and image tags
\* yields no record; a record has at least one of title, description and
\* imageUrl; and when extraction yields no record and the suggestion call
\* succeeded, the payload has previewStatus 'no_data', preview null and no
\* previewError.
C15_NoMetadataIsNoData ==
    (Enrichment /\ previewPromise.status = "fulfilled") =>
        LET html   == previewResponse[1].page[1].html
            record == previewPromise.value[1]
        IN  /\ ~HasPreviewTags(html) => record = <<>>
            /\ record # <<>> => \/ record[1].title # <<>>
                                \/ record[1].description # <<>>
                                \/ record[1].imageUrl # <<>>
            /\ (record = <<>> /\ PayloadEmitted)
                  => /\ res[1].status = 200
                     /\ res[1].body.previewStatus = "no_data"
                     /\ res[1].body.preview = <<>>
                     /\ "previewError" \notin DOMAIN res[1].body

\* a payload was emitted for a page that has a card type, a site name and an
\* icon, but no title, description or image
C15_Witness ==
    /\ PayloadEmitted
    /\ previewPromise.status = "fulfilled"
    /\ previewResponse[1].page[1].html # <<>>
    /\ ~HasPreviewTags(previewResponse[1].page[1].html)
    /\ res[1].body.previewStatus = "no_data"

\* the proxy route has answered a request whose upstream call settled
ProxyAnswered == req.route = "v1" /\ pc = "done" /\ Settled(proxyPromise) /\ res # <<>>

\* C16 as stated: on the proxy route an upstream answer whose status
\* differs from success is relayed with the same status and the upstream
\* body as it is, neither rewritten nor wrapped; a success is relayed with
\* its status and its body, a body that is not JSON converted by the XML
\* converter.
C16_UpstreamRelayedVerbatim ==
    ProxyAnswered =>
        /\ (proxyPromise.status = "rejected" /\ proxyPromise.reason[1].response # <<>>)
              => /\ res[1].status = proxyPromise.reason[1].response[1].status
                 /\ res[1].body = [ sent |-> proxyPromise.reason[1].response[1].data ]
        /\ (proxyPromise.status = "fulfilled" /\ res[1].status # 500)
              => /\ res[1].status = proxyPromise.value[1].status
                 /\ DOMAIN res[1].body \in { {"sent"}, {"json"} }
                 /\ "sent" \in DOMAIN res[1].body
                       => res[1].body.sent = proxyPromise.value[1].data
                 /\ "json" \in DOMAIN res[1].body
                       => IF proxyPromise.value[1].dataKind = "object"
                             \/ QueryGet(req.query, "format") = <<Json>>
                          THEN res[1].body.json = proxyPromise.value[1].data
                          ELSE <<res[1].body.json>> = XmlParse(proxyPromise.value[1].data)

\* C16 amended: an upstream answer with a 2xx status other than 200 is
\* relayed with the same status and the upstream body as it is; an answer
\* with a status outside 2xx is answered with the same status and a body
\* that is an object with the one member error, not the upstream body; a
\* 200 answer is relayed as JSON, a body that is not JSON converted by the
\* XML converter, with 500 'Failed to parse XML response' when that fails.
C16_UpstreamRelayedOrWrapped ==
    ProxyAnswered =>
        /\ (proxyPromise.status = "rejected" /\ proxyPromise.reason[1].response # <<>>)
              => /\ res[1].status = proxyPromise.reason[1].response[1].status
                 /\ DOMAIN res[1].body = {"error"}
        /\ (proxyPromise.status = "fulfilled" /\ proxyPromise.value[1].status # 200)
              => res = Respond(proxyPromise.value[1].status,
                               [ sent |-> proxyPromise.value[1].data ])
        /\ (proxyPromise.status = "fulfilled" /\ proxyPromise.value[1].status = 200)
              => \/ /\ res[1].status = 200
                    /\ DOMAIN res[1].body = {"json"}
                    /\ IF proxyPromise.value[1].dataKind = "object"
                          \/ QueryGet(req.query, "format") = <<Json>>
                       THEN res[1].body.json = proxyPromise.value[1].data
                       ELSE <<res[1].body.json>> = XmlParse(proxyPromise.value[1].data)
                 \/ /\ res = Respond(500, [ error |-> "Failed to parse XML response" ])
                    /\ proxyPromise.value[1].dataKind = "string"
                    /\ XmlParse(proxyPromise.value[1].data) = <<>>

\* the proxy route answered an upstream 401 that had a text body
C16_Witness ==
    /\ ProxyAnswered
    /\ proxyPromise.status = "rejected"
    /\ proxyPromise.reason[1].response # <<>>
    /\ proxyPromise.reason[1].response[1].dataKind = "string"
    /\ res[1].status = 401

\* the messages the gateway words itself
GatewayMessages ==
    { "url query parameter is required", "Invalid url parameter",
      "URL must use http or https", "URL host is not reachable from the proxy",
      "Authorization header required", "Invalid Basic authorization header",
      "Invalid Bearer authorization header", "API request failed", "Gateway timeout",
      "Internal server error", "Failed to parse XML response" }

\* the short texts an upstream failure carries: the error member of a JSON
\* body and a body that is a status line
UpstreamSummaries ==
    { e.response[1].data : e \in { f \in UpstreamFailures :
          /\ f.response # <<>>
          /\ f.response[1].dataKind \in {"string", "errorObject"}
          /\ f.response[1].data # UpstreamErrorPage } }

\* the messages of a failed preview fetch
PreviewMessages ==
    { o.message : o \in { x \in PreviewFetchOutcomes : x.kind = "error" } }
    \cup { "Preview response is not HTML", "Cannot read properties of undefined",
           "Failed to fetch preview metadata" }

\* C17: no error message the gateway returns, on either route and for any
\* upstream or preview failure, carries credentials, the Authorization
\* header or an upstream response body beyond a short summary: every error
\* text is one the gateway words itself, an upstream error member or status
\* line, or the message of the preview failure.
C17_ErrorMessagesSummarized ==
    (pc = "done" /\ res # <<>>) =>
        /\ "error" \in DOMAIN res[1].body
              => res[1].body.error \in GatewayMessages \cup UpstreamSummaries
        /\ "previewError" \in DOMAIN res[1].body
              => res[1].body.previewError \in PreviewMessages

\* C18: within one limiter window at most 30 requests that carry the same
\* token are handed to the enrichment handler, however the Authorization
\* header that carries the token is spelled; a request beyond that is
\* denied with the rate-limit headers and issues no outbound request.
C18_TokenLimited ==
    /\ \A t \in DOMAIN reached : reached[t] <= PreviewRateMax
    /\ (res # <<>> /\ res[1].status = 429)
          => ("headers" \in DOMAIN res[1] /\ outbound = <<>>)

\* the non-secret part of the credential the client sent: the text before
\* the first ":" of its payload, 'token' when a Bearer payload starts with ":"
NonSecretPart ==
    IF SentBearer /\ PayloadUser(req.credential.payload) = <<>>
    THEN <<"t", "o", "k", "e", "n">>
    ELSE PayloadUser(req.credential.payload)

\* the outcome the settled preview stands for
OutcomeOfPreview ==
    IF previewPromise.status = "rejected" THEN "preview_failed"
    ELSE IF previewPromise.value[1] = <<>> THEN "preview_not_found"
    ELSE "preview_generated"

ValueIn(element) ==
    IF element.tag = "meta"
    THEN FirstTruthy(<<Trim(element.content), Trim(element.value), Trim(element.href)>>)
    ELSE IF element.tag = "link" THEN Trim(element.href)
    ELSE Trim(element.text)

\* the non-empty values a source has in the document, in document order
ValuesOfSource(html, selector) ==
    SelectSeq([ i \in DOMAIN html |->
                  IF Matches(html[i], selector) THEN ValueIn(html[i]) ELSE <<>> ],
              LAMBDA v : v # <<>>)

\* the first non-empty value along a priority list: of the first source
\* that has a non-empty value anywhere in the document, the first such
\* value; absent (<<>>) if no source has one
FirstNonEmptyAlong(html, selectors) ==
    IF \A k \in DOMAIN selectors : ValuesOfSource(html, selectors[k]) = <<>> THEN <<>>
    ELSE ValuesOfSource(html, selectors[
             CHOOSE k \in DOMAIN selectors :
                 /\ ValuesOfSource(html, selectors[k]) # <<>>
                 /\ \A j \in 1..(k - 1) : ValuesOfSource(html, selectors[j]) = <<>>])[1]

\* the extractor has been applied to a document
Extracted == probe.fn = "extractPreviewMetadata" /\ probe.output # <<>>

\* C20: each logical field of the extractor's record is the first non-empty
\* value along its priority list (the image resolved against the record's
\* url), absent if no source has a non-empty value, a lower-priority
\* source being used only when no higher one has a non-empty value anywhere
\* in the document; the extractor returns no record exactly when title,
\* description and image are all absent.
C20_FirstNonEmptyAlongPriority ==
    Extracted =>
        LET html   == probe.input
            record == probe.output[1]
            image  == resolveAbsoluteUrl(UrlExample, FirstNonEmptyAlong(html, ImageSelectors))
        IN  IF /\ FirstNonEmptyAlong(html, TitleSelectors) = <<>>
               /\ FirstNonEmptyAlong(html, DescriptionSelectors) = <<>>
               /\ image = <<>>
            THEN record = <<>>
            ELSE /\ record # <<>>
                 /\ record[1].title = FirstNonEmptyAlong(html, TitleSelectors)
                 /\ record[1].description = FirstNonEmptyAlong(html, DescriptionSelectors)
                 /\ record[1].imageUrl = image
                 /\ record[1].siteName = FirstNonEmptyAlong(html, SiteNameSelectors)
                 /\ record[1].siteHandle = FirstNonEmptyAlong(html, SiteHandleSelectors)
                 /\ record[1].themeColor = FirstNonEmptyAlong(html, ThemeColorSelectors)

\* the url sources of a document in priority order, each resolved against
\* the final URL, followed by the final and the original URL
UrlCandidates(html, finalUrl, originalUrl) ==
    << resolveAbsoluteUrl(finalUrl, pickMetaValue(html, LinkRel("canonical", ""), AttributePreference)),
       resolveAbsoluteUrl(finalUrl, pickMetaValue(html, MetaProperty("og:url"), AttributePreference)),
       resolveAbsoluteUrl(finalUrl, pickMetaValue(html, MetaName("twitter:url"), AttributePreference)),
       finalUrl, originalUrl >>

\* the extractor has produced a record for a document and its URLs
UrlChosen == probe.fn = "canonicalUrl" /\ probe.output # <<>> /\ probe.output[1] # <<>>

\* C21: the url of a produced record is the first of link rel=canonical,
\* og:url, twitter:url, the final URL and the original URL that is present
\* and resolves to an absolute URL, a lower source being used exactly when
\* every higher one is absent or unresolvable; imageUrl and faviconUrl are
\* the image and the icon resolved against that url, absent when the
\* resolution fails.
C21_UrlByPriority ==
    UrlChosen =>
        LET in     == probe.input
            record == probe.output[1][1]
        IN  /\ record.url = FirstTruthy(UrlCandidates(in.html, in.finalUrl, in.originalUrl))
            /\ record.imageUrl =
                  resolveAbsoluteUrl(record.url, PickAlong(in.html, ImageSelectors))
            /\ record.faviconUrl = resolveAbsoluteUrl(record.url, selectFavicon(in.html))

\* the preview fetches issued for the request
PreviewRequests == { i \in DOMAIN outbound : outbound[i].kind = "preview" }

\* C22: nothing is retried: for a request the gateway issues at most one
\* upstream API call, and at most one preview fetch on the enrichment route
\* (none on the proxy route), whatever the outcome of those calls.
C22_NoRetry ==
    /\ Cardinality(ApiRequests) <= 1
    /\ Cardinality(PreviewRequests) <= (IF Enrichment THEN 1 ELSE 0)
    /\ (Settled(suggestionsPromise) \/ Settled(previewPromise) \/ Settled(proxyPromise))
          => Len(outbound) = (IF Enrichment THEN 2 ELSE 1)

\* the request ended after both of its calls had failed, the upstream one
\* by a timeout
C22_Witness ==
    /\ Enrichment /\ pc = "done"
    /\ suggestionsPromise.status = "rejected"
    /\ suggestionsPromise.reason[1].code = "ECONNABORTED"
    /\ previewPromise.status = "rejected"
    /\ Cardinality(ApiRequests) = 1 /\ Cardinality(PreviewRequests) = 1

\* C24: every host a preview fetch requests has passed the guard: the host
\* of the target and the host of each redirect followed is not private.
C24_RedirectsGuarded ==
    previewResponse # <<>> =>
        /\ ~isPrivateHostname(normalizedUrl.hostname)
        /\ \A i \in DOMAIN previewResponse[1].hops :
              /\ ParseURL(previewResponse[1].hops[i]) # <<>>
              /\ ~isPrivateHostname(ParseURL(previewResponse[1].hops[i])[1].hostname)

\* C25: in every payload the enrichment route emits, previewStatus is one
\* of 'fresh', 'no_data' and 'error', never the initial 'none', and preview
\* is a record (not null) if and only if previewStatus is 'fresh'.
C25_StatusMatchesPreview ==
    PayloadEmitted =>
        /\ res[1].body.previewStatus \in {"fresh", "no_data", "error"}
        /\ res[1].body.preview # <<>> <=> res[1].body.previewStatus = "fresh"

\* a payload was emitted with the record of a fetched document
C25_Witness ==
    /\ PayloadEmitted
    /\ previewResponse # <<>> /\ previewResponse[1].kind = "response"
    /\ res[1].body.preview # <<>>
    /\ res[1].body.preview[1].title = PageTitle
    /\ res[1].body.previewStatus = "fresh"

\* C26: every request admitted to either route eventually receives a
\* response, given that each outbound call settles, and along every path of
\* the handler the response is sent once: a response that was sent is never
\* followed by another.
C26_RespondedOnce ==
    /\ [](pc # "idle" => <>(pc = "done" /\ res # <<>>))
    /\ [][res # <<>> => res' = res]_vars

\* the proxy route answered a body that the XML converter could not parse
C26_Witness ==
    /\ req.route = "v1" /\ pc = "done"
    /\ res # <<>> /\ res[1].status = 500
    /\ proxyPromise.status = "fulfilled"

\* C23: requests are handled independently: in every interleaving of
\* concurrent requests, each upstream call carries the credentials resolved
\* from its own request's Authorization header and the query of its own
\* request, and the shared apiRequestDefaults and previewRequestConfig are
\* never modified.
C23_RequestsIndependent ==
    /\ sharedDefaults = [ api |-> apiRequestDefaults, preview |-> previewRequestConfig ]
    /\ \A i \in DOMAIN inflight : \A k \in DOMAIN inflight[i].outbound :
          LET request == inflight[i].req[1]
              call    == inflight[i].outbound[k]
              p       == request.credential.payload
          IN  IF call.kind = "api"
              THEN /\ call.config.timeout = ApiTimeoutMs
                   /\ request.credential.scheme = "Basic"
                        => /\ call.config.auth = <<[ username |-> PayloadUser(p),
                                                     password |-> PayloadSecret(p) ]>>
                           /\ ParamsGetAll(call.params, "auth_token") = <<>>
                   /\ request.credential.scheme = "Bearer"
                        => /\ call.config.auth = <<>>
                           /\ ParamsGetAll(call.params, "auth_token") = <<p>>
                   /\ ParamsDelete(call.params, "auth_token")
                        = IF request.route = "v1" THEN buildSearchParams(request.query)
                          ELSE << <<"url", ParseURL(TargetOf(request.query))[1].href>>,
                                  <<"format", Json>> >>
              ELSE /\ call.url = ParseURL(TargetOf(request.query))[1].href
                   /\ call.config = previewRequestConfig

\* a Basic request and a Bearer request of another user both wait for their
\* upstream calls, the Basic one having been handled first or second
C23_Witness ==
    \E i, j \in DOMAIN inflight :
       /\ inflight[i].pc = "awaiting" /\ inflight[j].pc = "awaiting"
       /\ inflight[i].req[1].credential = [ scheme |-> "Basic", payload |-> <<"u", ":", "p">> ]
       /\ inflight[j].req[1].credential = [ scheme |-> "Bearer", payload |-> <<"p", ":", "u">> ]
       /\ inflight[i].req[1].route = "v1" /\ inflight[j].req[1].route = "suggest"
       /\ inflight[i].outbound # <<>> /\ inflight[j].outbound # <<>>

=============================================================================
